---- MODULE Spec2Model ----
(***************************************************************************)
(* The sensor ingestion pipeline of the MMS application:                   *)
(*   - BluetoothProvider (src/unnamed/part_003, lines 1-695): raw queue,   *)
(*     decoder, timestamp synthesis, alignment, stage-1 debounce, pending  *)
(*     pair queue, chunked drain with stage-2 dedupe into imuData;         *)
(*   - SensorPanel (src/mms-appver2/src/app/NMESControl.tsx): the poll     *)
(*     tick, the recording buffer and the recording controls.              *)
(* Every callback (event handler, timer callback) is one atomic action:    *)
(* JavaScript runs each to completion on the single thread.  A React state *)
(* update and the effects that depend on it are taken together with the    *)
(* handler that requested them.                                            *)
(* Times are integer milliseconds; a per-sample interval gap/sampleCount   *)
(* is kept as an exact fraction and rounded as Math.round does.            *)
(***************************************************************************)
EXTENDS Integers, Sequences, FiniteSets, TLC

\* ---------------------------------------------------------------- bounds
\* Number of notifications the device sends in one behaviour.
MaxNotifs == 3
\* The same, in the runs that exercise the panel.
MaxPanelNotifs == 2
\* Queue sizes.  The source sets 2000 / 256 / 64 / 4; the model keeps their
\* order (cap > drain total > chunk, batch > 1) at a size the bounded
\* notification stream can fill.
PENDING_CAP == 5
MAX_DRAIN_PER_TICK == 3
DRAIN_CHUNK_SIZE == 2
BATCH_PER_TICK == 2
\* handleApplyModify calls that may wait at their awaits at the same time
MaxApplying == 1
\* Snapshots a run stores
MaxSnaps == 2
\* Notifications of a run that exercises the parameter snapshots
MaxSnapNotifs == 1
\* Snapshots of the lists the export lookup is studied on
MaxExportSnaps == 3
\* Notifications of a run in which decoding may throw
MaxFaultNotifs == 3
\* Length of the buffers the decoder is studied on
MaxBytes == 8
\* Samples per channel of the lists the aligner is studied on
MaxAlignSamples == 3
\* Samples of the batches the binner is studied on
MaxBinSamples == 3
\* Samples of the notifications the timestamp synthesis is studied on
MaxSynthSamples == 3
\* Markers a measurement session logs
MaxMarkers == 4

\* ------------------------------------------------------ program constants
IDLE_VALUE == 2048
DUP_WINDOW_MS == 250
DEFAULT_SAMPLE_INTERVAL == 20
MIN_SAMPLE_INTERVAL == 5
MAX_SAMPLE_INTERVAL == 10000
PURGE_FACTOR == 8
BIN_MS == 0
\* Tokens of the raw hash string: the separators ',' and '|' (raw values are
\* the non-negative tokens).
COMMA == -1
BAR == -2

\* The byte buffers the device sends: (2047,2048), (2049,2048) - two payloads
\* with equal magnitudes -, and three groups followed by three stray bytes.
Buffers ==
  { <<255, 7, 0, 8>>,
    <<1, 8, 0, 8>>,
    <<0, 0, 0, 8, 255, 15, 255, 255, 0, 8, 1, 8, 9, 9, 9>> }
\* Time between two notifications, in ms.
Gaps == {0, 100, 250}
\* The notifications of the runs that exercise the panel: the last one is a
\* group whose four bytes are printable characters, (12592,13106).
PanelBuffers == { <<255, 7, 0, 8>>,
                  <<0, 0, 0, 8, 255, 15, 255, 255, 0, 8, 1, 8, 9, 9, 9>>,
                  <<48, 49, 50, 51>> }
\* The notifications of the runs in which decoding may throw.
FaultBuffers == { <<255, 7, 0, 8>>,
                  <<0, 0, 0, 8, 255, 15, 255, 255, 0, 8, 1, 8, 9, 9, 9>> }
PanelGaps == {100}
\* The notification of the runs that exercise the parameter snapshots, and
\* the values typed into the frequency field: "", "20", "99".
SnapBuffers == { <<0, 0, 0, 8, 255, 15, 255, 255, 0, 8, 1, 8, 9, 9, 9>> }
FrequencyInputs == { <<>>, <<50, 48>>, <<57, 57>> }

\* ---------------------------------------------------------------- helpers
Min2(a, b) == IF a <= b THEN a ELSE b
Max2(a, b) == IF a >= b THEN a ELSE b
Abs(x) == IF x < 0 THEN -x ELSE x
SetMin(S) == CHOOSE x \in S : \A y \in S : x <= y
Range(s) == { s[i] : i \in 1..Len(s) }

RECURSIVE SortAsc(_)
\* Array.prototype.sort((a, b) => a - b) on a set of distinct numbers
SortAsc(S) == IF S = {} THEN <<>> ELSE <<SetMin(S)>> \o SortAsc(S \ {SetMin(S)})

RECURSIVE Gcd(_, _)
Gcd(a, b) == IF b = 0 THEN a ELSE Gcd(b, a % b)

\* The quotient n / d (d > 0) in lowest terms
Frac(n, d) == LET g == Gcd(Abs(n), d) IN [num |-> n \div g, den |-> d \div g]

\* Math.round of the fraction num/den (den > 0): floor(x + 1/2)
MathRound(num, den) == (2 * num + den) \div (2 * den)

\* ---------------------------------------------------------- frame decoder
GetUint16LE_BigEndian(bytes, off) == 256 * bytes[off + 1] + bytes[off + 2]

\* DataView.getUint16(off, true), off 0-based
GetUint16LE(bytes, off) == bytes[off + 1] + 256 * bytes[off + 2]

ProcessRawBytesAsMagnitudes(bytes) ==
  IF Len(bytes) = 0
  THEN [sensor1 |-> <<>>, sensor2 |-> <<>>, raw1s |-> <<>>, raw2s |-> <<>>,
        hasRaw |-> FALSE]
  ELSE LET pairCount == Len(bytes) \div 4
           raw1 == [i \in 1..pairCount |-> GetUint16LE(bytes, (i - 1) * 4)]
           raw2 == [i \in 1..pairCount |-> GetUint16LE(bytes, (i - 1) * 4 + 2)]
       IN [sensor1 |-> [i \in 1..pairCount |-> Abs(raw1[i] - IDLE_VALUE)],
           sensor2 |-> [i \in 1..pairCount |-> Abs(raw2[i] - IDLE_VALUE)],
           raw1s |-> raw1, raw2s |-> raw2, hasRaw |-> TRUE]

\* ---------------------------------------------------- timestamp synthesis
PerSampleInterval_NoUpperLimit(last, baseTs, sampleCount) ==
  IF last # <<>>
     /\ (baseTs - last[1]) >= MIN_SAMPLE_INTERVAL * sampleCount
  THEN [num |-> baseTs - last[1], den |-> sampleCount]
  ELSE [num |-> DEFAULT_SAMPLE_INTERVAL, den |-> 1]

PerSampleInterval_NoLowerLimit(last, baseTs, sampleCount) ==
  IF last # <<>>
     /\ (baseTs - last[1]) < MAX_SAMPLE_INTERVAL * sampleCount
  THEN [num |-> baseTs - last[1], den |-> sampleCount]
  ELSE [num |-> DEFAULT_SAMPLE_INTERVAL, den |-> 1]

\* The per-sample interval as a fraction [num, den].  last is <<>> (null) or <<ts>>.
PerSampleInterval(last, baseTs, sampleCount) ==
  IF last # <<>>
     /\ (baseTs - last[1]) >= MIN_SAMPLE_INTERVAL * sampleCount
     /\ (baseTs - last[1]) < MAX_SAMPLE_INTERVAL * sampleCount
  THEN [num |-> baseTs - last[1], den |-> sampleCount]
  ELSE [num |-> DEFAULT_SAMPLE_INTERVAL, den |-> 1]

MakeSamplesAt_Forward(arr, baseTs, itv) ==
  [i \in 1..Len(arr) |->
     [value |-> arr[i],
      ts |-> [num |-> baseTs.num * itv.den + (i - 1) * itv.num * baseTs.den,
              den |-> baseTs.den * itv.den]]]

\* makeSamples: value and the unrounded ts = baseTs - (n-1-idx) * interval,
\* for a baseTs that need not be a whole number of milliseconds
MakeSamplesAt(arr, baseTs, itv) ==
  [i \in 1..Len(arr) |->
     [value |-> arr[i],
      ts |-> [num |-> baseTs.num * itv.den - (Len(arr) - i) * itv.num * baseTs.den,
              den |-> baseTs.den * itv.den]]]

\* makeSamples for a baseTs in whole milliseconds
MakeSamples(arr, baseTs, itv) == MakeSamplesAt(arr, [num |-> baseTs, den |-> 1], itv)

\* --------------------------------------------------------- channel aligner
\* map.set(Math.round(s.ts), s.value) for each sample in order: a later sample
\* with the same rounded ts overwrites an earlier one.
SamplesToMap(samples) ==
  LET rts(i) == MathRound(samples[i].ts.num, samples[i].ts.den)
      keys == { rts(i) : i \in 1..Len(samples) }
      lastIdx(t) == CHOOSE i \in 1..Len(samples) :
                      /\ rts(i) = t
                      /\ \A j \in 1..Len(samples) : rts(j) = t => j <= i
  IN [t \in keys |-> samples[lastIdx(t)].value]

RECURSIVE SortDesc(_)
SortDesc(S) == IF S = {} THEN <<>> ELSE SortDesc(S \ {SetMin(S)}) \o <<SetMin(S)>>

IntersectionTs_Descending(map1, map2) == SortDesc({ t \in DOMAIN map1 : t \in DOMAIN map2 })

\* The keys of map1 that map2 has, sorted with (a, b) => a - b
IntersectionTs(map1, map2) == SortAsc({ t \in DOMAIN map1 : t \in DOMAIN map2 })

\* aligned1 / aligned2 as one sequence of pairs {s1, s2}; id = <<notification,
\* index>> is history only (the code never reads it).
AlignedPairs(map1, map2, nid) ==
  LET its == IntersectionTs(map1, map2)
  IN [i \in 1..Len(its) |->
        [s1 |-> [ts |-> its[i], value |-> map1[its[i]]],
         s2 |-> [ts |-> its[i], value |-> map2[its[i]]],
         id |-> <<nid, i>>]]

\* ------------------------------------------------------ stage-1 debounce
RECURSIVE Join(_)
\* Array.prototype.join(','), as a sequence of tokens
Join(arr) ==
  IF Len(arr) = 0 THEN <<>>
  ELSE IF Len(arr) = 1 THEN <<arr[1]>>
  ELSE <<arr[1], COMMA>> \o Join(Tail(arr))

RawHash(raw1s, raw2s) == Join(raw1s) \o <<BAR>> \o Join(raw2s)

\* recentRawHashRef.current.get(rawHash): <<>> (undefined) or <<lastSeen>>
MapGet(map, h) == IF h \in DOMAIN map THEN <<map[h]>> ELSE <<>>
MapSet(map, h, t) == [k \in DOMAIN map \cup {h} |-> IF k = h THEN t ELSE map[k]]

IsDuplicateWindow_Inclusive(lastSeen, baseTs) ==
  /\ lastSeen # <<>>
  /\ lastSeen[1] # 0
  /\ (baseTs - lastSeen[1]) <= DUP_WINDOW_MS

\* lastSeen && (baseTs - lastSeen) < DUP_WINDOW_MS: a lastSeen of 0 is falsy
IsDuplicateWindow(lastSeen, baseTs) ==
  /\ lastSeen # <<>>
  /\ lastSeen[1] # 0
  /\ (baseTs - lastSeen[1]) < DUP_WINDOW_MS

RecordSeen_Always(map, h, baseTs, isDuplicateWindow) == MapSet(map, h, baseTs)

\* if (duplicate) { isDuplicateWindow = true } else { recentRawHashRef.current.set(rawHash, baseTs) }
RecordSeen(map, h, baseTs, isDuplicateWindow) ==
  IF isDuplicateWindow THEN map ELSE MapSet(map, h, baseTs)

PurgeOld_Never(map, baseTs) == map

\* for (const [h, t] of ...entries()) if (baseTs - t > DUP_WINDOW_MS * 8) delete(h)
PurgeOld(map, baseTs) ==
  LET keep == { h \in DOMAIN map : ~ (baseTs - map[h] > DUP_WINDOW_MS * PURGE_FACTOR) }
  IN [h \in keep |-> map[h]]

\* ------------------------------------------------------------------ state
VARIABLES
  now,                  \* performance.now()
  isConnected,          \* provider state isConnected
  notifying,            \* the device streams notifications (startIMU's 'b' .. stopIMU's 'B')
  rawQueue,             \* rawQueueRef.current: items {bytes, arrivalTs} (+ nid)
  rawQueueProcessing,   \* rawQueueProcessingRef.current
  rawTimers,            \* pending setTimeout(processRawQueue, PROCESS_MS)
  lastNotificationTs,   \* lastNotificationTsRef.current: <<>> (null) or <<ts>>
  recentRawHash,        \* recentRawHashRef.current: hash -> last recorded baseTs
  pairs,                \* pairsRef.current, the pending-pair queue
  draining,             \* drainingRef.current
  drainTotal,           \* chunkedDrain's closure variable total
  drainProcessed,       \* chunkedDrain's closure variable processed
  chunkTimers,          \* pending setTimeout(processNextChunk, 0)
  imuData,              \* provider state imuData, the live sample store
  isMeasuring,          \* SensorPanel state
  isRecording,          \* SensorPanel state
  isPausedRecording,    \* SensorPanel state and isPausedRecordingRef.current
  prevImuLen,           \* prevImuLenRef.current
  sessionStart,         \* sessionStartRef.current: <<>> (null) or <<ts>>
  recorded,             \* recordedRef.current, the recording buffer
  queuedS1,             \* queuedS1Ref.current, display queue of channel 1
  queuedS2,             \* queuedS2Ref.current, display queue of channel 2
  markers,              \* SensorPanel state, the marker log
  flushing,             \* flushingRef.current: a flush frame is requested
  sensor1Data,          \* SensorPanel state, the chart of channel 1
  sensor2Data,          \* SensorPanel state, the chart of channel 2
  inputs,               \* SensorPanel state: the parameter input fields
  paramSnapshots,       \* paramSnapshotsRef.current
  applying,             \* handleApplyModify calls waiting at their awaits
  fnIn,                 \* argument of a function studied on its own, or <<>>
  fnOut,                \* <<>> or <<its result>>
  \* history variables: never read by an action's guard or effect on the above
  received,             \* notifications received so far (numbers them)
  handled,              \* one record per decoded notification, in decode order
  pushLog,              \* ids of the pairs pushed onto pairs, in push order
  trimCount,            \* pairs removed by the overflow trim
  lastResetNid,         \* received, at the latest clearIMU / disconnect()
  offered,              \* ids of the pairs handed to appendChunkToState, in order
  pausedSeen            \* ids of samples the poll consumed while paused

provVars == <<now, isConnected, notifying, rawQueue, rawQueueProcessing, rawTimers,
              lastNotificationTs, recentRawHash, pairs, draining, drainTotal,
              drainProcessed, chunkTimers, imuData>>
panelVars == <<isMeasuring, isRecording, isPausedRecording, prevImuLen,
               sessionStart, recorded, queuedS1, queuedS2, markers>>
dispVars == <<flushing, sensor1Data, sensor2Data>>
snapVars == <<inputs, paramSnapshots, applying>>
fnVars == <<fnIn, fnOut>>
histVars == <<received, handled, pushLog, trimCount, lastResetNid, offered, pausedSeen>>
vars == <<provVars, panelVars, dispVars, snapVars, fnVars, histVars>>

EmptyImu == [imu1_changes |-> <<>>, imu2_changes |-> <<>>]
EmptyRecorded == [sensor1 |-> <<>>, sensor2 |-> <<>>]

\* The input fields as the component first renders them
\* Strings are sequences of character codes: "" is <<>>, "1" is <<49>>.
InitialInputs ==
  [frequency |-> <<>>, rampUp |-> <<>>, rampDown |-> <<>>, offTime |-> <<>>,
   electrode1 |-> <<49>>, electrode2 |-> <<57>>, amplitude |-> <<53>>]

\* The state once the provider and the panel are mounted
InitProgram ==
  /\ now = 0
  /\ isConnected = FALSE
  /\ notifying = FALSE
  /\ rawQueue = <<>>
  /\ rawQueueProcessing = FALSE
  /\ rawTimers = 0
  /\ lastNotificationTs = <<>>
  /\ recentRawHash = <<>>
  /\ pairs = <<>>
  /\ draining = FALSE
  /\ drainTotal = 0
  /\ drainProcessed = 0
  /\ chunkTimers = 0
  /\ imuData = EmptyImu
  /\ isMeasuring = FALSE
  /\ isRecording = FALSE
  /\ isPausedRecording = FALSE
  /\ prevImuLen = [s1 |-> 0, s2 |-> 0]
  /\ sessionStart = <<>>
  /\ recorded = EmptyRecorded
  /\ queuedS1 = <<>>
  /\ queuedS2 = <<>>
  /\ markers = <<>>
  /\ received = 0
  /\ handled = <<>>
  /\ pushLog = <<>>
  /\ trimCount = 0
  /\ lastResetNid = 0
  /\ pausedSeen = {}
  /\ flushing = FALSE
  /\ sensor1Data = <<>>
  /\ sensor2Data = <<>>
  /\ inputs = InitialInputs
  /\ paramSnapshots = <<>>
  /\ applying = <<>>
  /\ offered = <<>>

Init ==
  /\ InitProgram
  /\ fnIn = <<>>
  /\ fnOut = <<>>

\* ------------------------------------------------------- handleIMUData
TrimPending_Back(q) ==
  IF Len(q) > PENDING_CAP THEN SubSeq(q, 1, PENDING_CAP) ELSE q

\* pairsRef.current.splice(0, length - PENDING_CAP) when length > PENDING_CAP
TrimPending(q) ==
  IF Len(q) > PENDING_CAP THEN SubSeq(q, Len(q) - PENDING_CAP + 1, Len(q)) ELSE q

BaseTs_ProcessingTime(st, item) == st.now

\* baseTs: the item's arrivalTs (always a number), not performance.now()
BaseTs(st, item) == item.arrivalTs

\* The pairs as the pending queue holds them, without the model's id
PairValues(aligned) ==
  [i \in 1..Len(aligned) |->
     [ts1 |-> aligned[i].s1.ts, v1 |-> aligned[i].s1.value,
      ts2 |-> aligned[i].s2.ts, v2 |-> aligned[i].s2.value]]

\* The refs handleIMUData reads and writes, as one record st, so that
\* processRawQueue can run it on each item of a batch in turn.  st.now is
\* performance.now() at the time of the call.
HandleIMUData(st, item) ==
  LET parsed == ProcessRawBytesAsMagnitudes(item.bytes)
      baseTs == BaseTs(st, item)
      sampleCount == Max2(Max2(Len(parsed.sensor1), Len(parsed.sensor2)), 1)
      itv == PerSampleInterval(st.lastNotificationTs, baseTs, sampleCount)
      map1 == SamplesToMap(MakeSamples(parsed.sensor1, baseTs, itv))
      map2 == SamplesToMap(MakeSamples(parsed.sensor2, baseTs, itv))
      aligned == AlignedPairs(map1, map2, item.nid)
      rawHash == RawHash(parsed.raw1s, parsed.raw2s)
      lastSeen == MapGet(st.recentRawHash, rawHash)
      isDuplicateWindow == IsDuplicateWindow(lastSeen, baseTs)
      hashes == PurgeOld(RecordSeen(st.recentRawHash, rawHash, baseTs, isDuplicateWindow),
                         baseTs)
      pushedQ == st.pairs \o aligned
      entry == [nid |-> item.nid, hash |-> rawHash, baseTs |-> baseTs,
                dup |-> isDuplicateWindow, aligned |-> Len(aligned),
                pushed |-> 0, before |-> Len(st.pairs), after |-> 0, threw |-> FALSE,
                bytes |-> item.bytes, arrivalTs |-> item.arrivalTs,
                itv |-> <<itv>>, out |-> <<>>]
  IN IF isDuplicateWindow
     THEN [st EXCEPT !.lastNotificationTs = <<baseTs>>,
                     !.recentRawHash = hashes,
                     !.handled = Append(@, [entry EXCEPT !.after = Len(st.pairs)])]
     ELSE [st EXCEPT !.lastNotificationTs = <<baseTs>>,
                     !.recentRawHash = hashes,
                     !.pairs = TrimPending(pushedQ),
                     !.pushLog = @ \o [i \in 1..Len(aligned) |-> aligned[i].id],
                     !.trimCount = @ + (Len(pushedQ) - Len(TrimPending(pushedQ))),
                     !.handled = Append(@, [entry EXCEPT
                                              !.pushed = Len(pushedQ) - Len(st.pairs),
                                              !.after = Len(TrimPending(pushedQ)),
                                              !.out = PairValues(aligned)])]

\* handleIMUData when processRawBytesAsMagnitudes throws: control goes from the
\* call straight to the catch, which logs the error.
HandleIMUDataThrown(st, item) ==
  [st EXCEPT !.handled =
     Append(@, [nid |-> item.nid, hash |-> <<>>, baseTs |-> item.arrivalTs,
                dup |-> FALSE, aligned |-> 0, pushed |-> 0,
                before |-> Len(st.pairs), after |-> Len(st.pairs), threw |-> TRUE,
                bytes |-> item.bytes, arrivalTs |-> item.arrivalTs,
                itv |-> <<>>, out |-> <<>>])]

RECURSIVE HandleBatch_AbortOnThrow(_, _, _)
HandleBatch_AbortOnThrow(st, batch, throwing) ==
  IF batch = <<>> THEN st
  ELSE IF Head(batch).nid \in throwing THEN HandleIMUDataThrown(st, Head(batch))
  ELSE HandleBatch_AbortOnThrow(HandleIMUData(st, Head(batch)), Tail(batch), throwing)

RECURSIVE HandleBatch(_, _, _)
\* for (const item of batch) { try { handleIMUData(item); } catch (e) {} }
\* throwing: the notifications (by number) whose decoding throws
HandleBatch(st, batch, throwing) ==
  IF batch = <<>> THEN st
  ELSE HandleBatch(IF Head(batch).nid \in throwing
                   THEN HandleIMUDataThrown(st, Head(batch))
                   ELSE HandleIMUData(st, Head(batch)),
                   Tail(batch), throwing)

\* --------------------------------------------------- handleIncomingData
\* Fewer than 50 bytes, more than 80 % of them printable ASCII, CR or LF
IsTextResponse(bytes) ==
  LET printable == { i \in 1..Len(bytes) :
                       \/ (bytes[i] >= 32 /\ bytes[i] <= 126)
                       \/ bytes[i] = 10
                       \/ bytes[i] = 13 }
  IN /\ Len(bytes) > 0
     /\ Len(bytes) < 50
     /\ 10 * Cardinality(printable) > 8 * Len(bytes)

ArmRawTick_Always(processing, timers) == timers + 1

\* if (!rawQueueProcessingRef.current) { ...; setTimeout(processRawQueue, PROCESS_MS) }:
\* the raw-queue ticks pending afterwards
ArmRawTick(processing, timers) == IF processing THEN timers ELSE timers + 1

\* The characteristicvaluechanged listener, attached by connect().  A text
\* response only sets lastResponse / impedanceData, which the pipeline
\* never reads.
HandleIncomingData(bytes, gap, limit) ==
  /\ isConnected
  /\ notifying
  /\ received < limit
  /\ now' = now + gap
  /\ received' = received + 1
  /\ IF IsTextResponse(bytes)
     THEN UNCHANGED <<rawQueue, rawQueueProcessing, rawTimers>>
     ELSE /\ rawQueue' = Append(rawQueue, [bytes |-> bytes, arrivalTs |-> now',
                                           nid |-> received + 1])
          /\ rawQueueProcessing' = TRUE
          /\ rawTimers' = ArmRawTick(rawQueueProcessing, rawTimers)
  /\ UNCHANGED <<isConnected, notifying, lastNotificationTs, recentRawHash, pairs, draining,
                 drainTotal, drainProcessed, chunkTimers, imuData>>
  /\ UNCHANGED panelVars
  /\ UNCHANGED <<dispVars, snapVars, fnVars>>
  /\ UNCHANGED <<handled, pushLog, trimCount, lastResetNid, offered, pausedSeen>>

\* ------------------------------------------------------- processRawQueue
SpliceBatch_Peek(q) ==
  LET n == Min2(BATCH_PER_TICK, Len(q))
  IN [taken |-> SubSeq(q, 1, n), rest |-> q]

SpliceBatch_Reversed(q) ==
  LET n == Min2(BATCH_PER_TICK, Len(q))
  IN [taken |-> [i \in 1..n |-> q[n + 1 - i]], rest |-> SubSeq(q, n + 1, Len(q))]

\* rawQueueRef.current.splice(0, BATCH_PER_TICK): the removed front and what is left
SpliceBatch(q) ==
  LET n == Min2(BATCH_PER_TICK, Len(q))
  IN [taken |-> SubSeq(q, 1, n), rest |-> SubSeq(q, n + 1, Len(q))]

\* The refs handleIMUData works on, as they are now
CurrentRefs ==
  [lastNotificationTs |-> lastNotificationTs, recentRawHash |-> recentRawHash,
   pairs |-> pairs, pushLog |-> pushLog, trimCount |-> trimCount, handled |-> handled,
   now |-> now]

\* The refs as the provider creates them
InitialRefs ==
  [lastNotificationTs |-> <<>>, recentRawHash |-> <<>>, pairs |-> <<>>,
   pushLog |-> <<>>, trimCount |-> 0, handled |-> <<>>, now |-> 0]

\* The setTimeout(processRawQueue, PROCESS_MS) callback, with the
\* notifications of its batch whose decoding throws
ProcessRawQueueWith(throwing) ==
  /\ rawTimers > 0
  /\ throwing \subseteq { SpliceBatch(rawQueue).taken[i].nid :
                             i \in 1..Len(SpliceBatch(rawQueue).taken) }
  /\ LET batch == SpliceBatch(rawQueue).taken
         rest == SpliceBatch(rawQueue).rest
         st == HandleBatch(CurrentRefs, batch, throwing)
     IN /\ rawQueue' = rest
        /\ rawQueueProcessing' = (Len(rest) > 0)
        /\ rawTimers' = IF Len(rest) > 0 THEN rawTimers ELSE rawTimers - 1
        /\ lastNotificationTs' = st.lastNotificationTs
        /\ recentRawHash' = st.recentRawHash
        /\ pairs' = st.pairs
        /\ pushLog' = st.pushLog
        /\ trimCount' = st.trimCount
        /\ handled' = st.handled
  /\ UNCHANGED <<now, isConnected, notifying, draining, drainTotal, drainProcessed,
                 chunkTimers, imuData>>
  /\ UNCHANGED panelVars
  /\ UNCHANGED <<dispVars, snapVars, fnVars>>
  /\ UNCHANGED <<received, lastResetNid, offered, pausedSeen>>

\* The callback when no decoding throws
ProcessRawQueue == ProcessRawQueueWith({})

\* ---------------------------------------------------------- chunked drain
SamePair(last1, last2, p) ==
  /\ last1.ts = p.s1.ts /\ last2.ts = p.s2.ts
  /\ last1.value = p.s1.value /\ last2.value = p.s2.value

WithId(s, id) == [ts |-> s.ts, value |-> s.value, id |-> id]

RECURSIVE AppendChunk_NoDedupe(_, _)
AppendChunk_NoDedupe(imu, chunk) ==
  IF chunk = <<>> THEN imu
  ELSE AppendChunk_NoDedupe(
         [imu1_changes |-> Append(imu.imu1_changes, WithId(Head(chunk).s1, Head(chunk).id)),
          imu2_changes |-> Append(imu.imu2_changes, WithId(Head(chunk).s2, Head(chunk).id))],
         Tail(chunk))

RECURSIVE AppendChunkToState(_, _)
\* setImuData(prev => ...): last1 / last2 are the tails of out1 / out2, which is
\* what the loop's last1 = s1, last2 = s2 keep them at.
AppendChunkToState(imu, chunk) ==
  IF chunk = <<>> THEN imu
  ELSE LET p == Head(chunk)
           out1 == imu.imu1_changes
           out2 == imu.imu2_changes
           skip == /\ Len(out1) > 0 /\ Len(out2) > 0
                   /\ SamePair(out1[Len(out1)], out2[Len(out2)], p)
       IN AppendChunkToState(
            IF skip THEN imu
            ELSE [imu1_changes |-> Append(out1, WithId(p.s1, p.id)),
                  imu2_changes |-> Append(out2, WithId(p.s2, p.id))],
            Tail(chunk))

DrainTotalOf_WholeTick(len) == MAX_DRAIN_PER_TICK

\* total = Math.min(pairsRef.current.length, MAX_DRAIN_PER_TICK)
DrainTotalOf(len) == Min2(len, MAX_DRAIN_PER_TICK)

DrainMayStart_Overlapping(isDraining, len) == len # 0

\* if (drainingRef.current) return; if (pairsRef.current.length === 0) return;
DrainMayStart(isDraining, len) == ~ isDraining /\ len # 0

\* The setInterval(chunkedDrain, DRAIN_MS) callback.
ChunkedDrain ==
  /\ IF ~ DrainMayStart(draining, Len(pairs))
     THEN UNCHANGED <<draining, drainTotal, drainProcessed, chunkTimers>>
     ELSE /\ draining' = TRUE
          /\ drainTotal' = DrainTotalOf(Len(pairs))
          /\ drainProcessed' = 0
          /\ chunkTimers' = chunkTimers + 1
  /\ UNCHANGED <<now, isConnected, notifying, rawQueue, rawQueueProcessing, rawTimers,
                 lastNotificationTs, recentRawHash, pairs, imuData>>
  /\ UNCHANGED panelVars
  /\ UNCHANGED <<dispVars, snapVars, fnVars>>
  /\ UNCHANGED histVars

SpliceChunk_FromBack(q, toTake) ==
  LET n == Min2(toTake, Len(q))
  IN [taken |-> SubSeq(q, Len(q) - n + 1, Len(q)), rest |-> SubSeq(q, 1, Len(q) - n)]

\* pairsRef.current.splice(0, toTake): the removed front and what is left
SpliceChunk(q, toTake) ==
  LET n == Min2(toTake, Len(q))
  IN [taken |-> SubSeq(q, 1, n), rest |-> SubSeq(q, n + 1, Len(q))]

ToTake_Whole(total, processed) == total - processed

ToTake_Single(total, processed) == 1

\* toTake = Math.min(DRAIN_CHUNK_SIZE, total - processed)
ToTake(total, processed) == Min2(DRAIN_CHUNK_SIZE, total - processed)

\* The setTimeout(processNextChunk, 0) callback.
ProcessNextChunk ==
  /\ chunkTimers > 0
  /\ IF drainProcessed >= drainTotal
     THEN /\ draining' = FALSE
          /\ chunkTimers' = chunkTimers - 1
          /\ UNCHANGED <<pairs, drainProcessed, imuData, offered>>
     ELSE LET toTake == ToTake(drainTotal, drainProcessed)
              chunk == SpliceChunk(pairs, toTake).taken
              processed == drainProcessed + Len(chunk)
          IN /\ pairs' = SpliceChunk(pairs, toTake).rest
             /\ drainProcessed' = processed
             /\ imuData' = AppendChunkToState(imuData, chunk)
             /\ offered' = offered \o [i \in 1..Len(chunk) |-> chunk[i].id]
             /\ draining' = (processed < drainTotal)
             /\ chunkTimers' = IF processed < drainTotal THEN chunkTimers
                               ELSE chunkTimers - 1
  /\ UNCHANGED <<now, isConnected, notifying, rawQueue, rawQueueProcessing, rawTimers,
                 lastNotificationTs, recentRawHash, drainTotal>>
  /\ UNCHANGED panelVars
  /\ UNCHANGED <<dispVars, snapVars, fnVars>>
  /\ UNCHANGED <<received, handled, pushLog, trimCount, lastResetNid, pausedSeen>>

\* ------------------------------------------------- connection life cycle
\* The effect of SensorPanel that runs when isConnected turns false.
PanelDisconnectEffect ==
  /\ isMeasuring' = FALSE
  /\ isRecording' = FALSE
  /\ recorded' = EmptyRecorded
  /\ sensor1Data' = <<>>
  /\ sensor2Data' = <<>>
  /\ prevImuLen' = [s1 |-> 0, s2 |-> 0]
  /\ UNCHANGED <<isPausedRecording, sessionStart, queuedS1, queuedS2, flushing, markers>>

\* connect(), once the device is chosen and the listener is attached
Connect ==
  /\ ~ isConnected
  /\ isConnected' = TRUE
  /\ UNCHANGED <<now, notifying, rawQueue, rawQueueProcessing, rawTimers,
                 lastNotificationTs, recentRawHash, pairs, draining, drainTotal,
                 drainProcessed, chunkTimers, imuData>>
  /\ UNCHANGED panelVars
  /\ UNCHANGED <<dispVars, snapVars, fnVars>>
  /\ UNCHANGED histVars

\* disconnect(): the Disconnect button
Disconnect ==
  /\ isConnected
  /\ imuData' = EmptyImu
  /\ isConnected' = FALSE
  /\ notifying' = FALSE
  /\ PanelDisconnectEffect
  /\ UNCHANGED <<snapVars, fnVars>>
  /\ lastResetNid' = received
  /\ UNCHANGED <<now, rawQueue, rawQueueProcessing, rawTimers, lastNotificationTs,
                 recentRawHash, pairs, draining, drainTotal, drainProcessed,
                 chunkTimers>>
  /\ UNCHANGED <<received, handled, pushLog, trimCount, offered, pausedSeen>>

\* handleDisconnection: the device's gattserverdisconnected event
HandleDisconnection ==
  /\ isConnected
  /\ isConnected' = FALSE
  /\ notifying' = FALSE
  /\ PanelDisconnectEffect
  /\ UNCHANGED <<snapVars, fnVars>>
  /\ UNCHANGED <<now, rawQueue, rawQueueProcessing, rawTimers, lastNotificationTs,
                 recentRawHash, pairs, draining, drainTotal, drainProcessed,
                 chunkTimers, imuData>>
  /\ UNCHANGED histVars

\* ----------------------------------------------------- measurement controls
\* clearIMU(): the provider's part of a hard reset
ClearIMU_OneChannel == imuData' = [imuData EXCEPT !.imu1_changes = <<>>]

ClearIMU == imuData' = EmptyImu

\* The Start Sensors button (disabled unless connected and not measuring)
HandleStartIMU ==
  /\ isConnected
  /\ ~ isMeasuring
  /\ sensor1Data' = <<>>
  /\ sensor2Data' = <<>>
  /\ ClearIMU
  /\ prevImuLen' = [s1 |-> 0, s2 |-> 0]
  /\ recorded' = EmptyRecorded
  /\ isRecording' = FALSE
  /\ sessionStart' = <<>>
  /\ isMeasuring' = TRUE
  /\ notifying' = TRUE
  /\ markers' = <<>>
  /\ lastResetNid' = received
  /\ UNCHANGED <<now, isConnected, rawQueue, rawQueueProcessing, rawTimers,
                 lastNotificationTs, recentRawHash, pairs, draining, drainTotal,
                 drainProcessed, chunkTimers>>
  /\ UNCHANGED <<isPausedRecording, queuedS1, queuedS2, flushing>>
  /\ UNCHANGED <<snapVars, fnVars>>
  /\ UNCHANGED <<received, handled, pushLog, trimCount, offered, pausedSeen>>

\* The Stop Sensors button (disabled unless connected and measuring)
HandleStopIMU ==
  /\ isConnected
  /\ isMeasuring
  /\ isMeasuring' = FALSE
  /\ UNCHANGED provVars
  /\ UNCHANGED <<dispVars, snapVars, fnVars>>
  /\ UNCHANGED <<isRecording, isPausedRecording, prevImuLen, sessionStart,
                 recorded, queuedS1, queuedS2, markers>>
  /\ UNCHANGED histVars

\* stopIMU() after its awaited 'B' command: the listener is removed and the
\* notifications stop
StopIMUDone ==
  /\ isConnected
  /\ ~ isMeasuring
  /\ notifying
  /\ notifying' = FALSE
  /\ UNCHANGED <<now, isConnected, rawQueue, rawQueueProcessing, rawTimers,
                 lastNotificationTs, recentRawHash, pairs, draining, drainTotal,
                 drainProcessed, chunkTimers, imuData>>
  /\ UNCHANGED panelVars
  /\ UNCHANGED <<dispVars, snapVars, fnVars>>
  /\ UNCHANGED histVars

\* ------------------------------------------------------ recording controls
\* latestTime of the recording handlers: the time of the chart's last point
LatestChartTime(s1Data, s2Data) ==
  IF Len(s1Data) > 0 THEN s1Data[Len(s1Data)].time
  ELSE IF Len(s2Data) > 0 THEN s2Data[Len(s2Data)].time
  ELSE Frac(0, 1)

AddMarker_Replace(log, type) ==
  <<[time |-> LatestChartTime(sensor1Data, sensor2Data), type |-> type]>>

\* setMarkers((prev) => [...prev, { time: latestTime, type }])
AddMarker(log, type) ==
  Append(log, [time |-> LatestChartTime(sensor1Data, sensor2Data), type |-> type])

\* handleStartOrTogglePause with recording off: handleStartRecording
HandleStartRecording ==
  /\ isConnected
  /\ isMeasuring
  /\ ~ isRecording
  /\ Len(markers) < MaxMarkers
  /\ recorded' = EmptyRecorded
  /\ isRecording' = TRUE
  /\ isPausedRecording' = FALSE
  /\ markers' = AddMarker(markers, "start")
  /\ UNCHANGED provVars
  /\ UNCHANGED <<dispVars, snapVars, fnVars>>
  /\ UNCHANGED <<isMeasuring, prevImuLen, sessionStart, queuedS1, queuedS2>>
  /\ UNCHANGED histVars

\* The Stop Recording button (disabled unless recording)
HandleStopRecording ==
  /\ isRecording
  /\ Len(markers) < MaxMarkers
  /\ isRecording' = FALSE
  /\ isPausedRecording' = FALSE
  /\ markers' = AddMarker(markers, "stop")
  /\ UNCHANGED provVars
  /\ UNCHANGED <<dispVars, snapVars, fnVars>>
  /\ UNCHANGED <<isMeasuring, prevImuLen, sessionStart, recorded, queuedS1, queuedS2>>
  /\ UNCHANGED histVars

\* handleStartOrTogglePause with recording on: handleTogglePauseRecording
HandleTogglePauseRecording ==
  /\ isConnected
  /\ isMeasuring
  /\ isRecording
  /\ Len(markers) < MaxMarkers
  /\ isPausedRecording' = ~ isPausedRecording
  /\ markers' = AddMarker(markers, IF ~ isPausedRecording THEN "pause" ELSE "resume")
  /\ UNCHANGED provVars
  /\ UNCHANGED <<dispVars, snapVars, fnVars>>
  /\ UNCHANGED <<isMeasuring, isRecording, prevImuLen, sessionStart, recorded,
                 queuedS1, queuedS2>>
  /\ UNCHANGED histVars

\* ---------------------------------------------------------------- poll tick
\* Point times: the code keeps seconds, (ts - sessionStart) / 1000; the model
\* keeps the same quantity in milliseconds.
PointTime(ts, start) == ts - start

\* pushWithTs
PushWithTs(samples, start) ==
  [i \in 1..Len(samples) |->
     [time |-> PointTime(samples[i].ts, start), sensorValue |-> samples[i].value,
      id |-> samples[i].id]]

\* ------------------------------------------------ double-precision numbers
\* A JavaScript number that need not be an integer: [neg, bits, exp] is
\* (-1)^neg * bits * 2^exp, bits a binary numeral of at most MANTISSA_BITS
\* digits, most significant first and that digit 1; zero has bits = <<>>.
\* Every operation rounds its exact result to the nearest such number, ties
\* to the even numeral.  The arithmetic on numerals goes by limbs of
\* LIMB_BITS digits.
MANTISSA_BITS == 53
LIMB_BITS == 16
LIMB == 65536

RECURSIVE Pow2(_)
Pow2(n) == IF n = 0 THEN 1 ELSE 2 * Pow2(n - 1)

RECURSIVE NatBits(_)
NatBits(n) == IF n = 0 THEN <<>> ELSE Append(NatBits(n \div 2), n % 2)

RECURSIVE BitsNat(_)
BitsNat(b) == IF b = <<>> THEN 0 ELSE 2 * BitsNat(SubSeq(b, 1, Len(b) - 1)) + b[Len(b)]

Zeros(n) == [i \in 1..n |-> 0]

StripZeros(b) ==
  IF \A i \in 1..Len(b) : b[i] = 0 THEN <<>>
  ELSE LET j == CHOOSE i \in 1..Len(b) : b[i] = 1 /\ \A m \in 1..(i - 1) : b[m] = 0
       IN SubSeq(b, j, Len(b))

\* The numeral b + 1
IncBits(b) ==
  IF \A i \in 1..Len(b) : b[i] = 1 THEN <<1>> \o Zeros(Len(b))
  ELSE LET z == CHOOSE i \in 1..Len(b) : b[i] = 0 /\ \A m \in (i + 1)..Len(b) : b[m] = 1
       IN [i \in 1..Len(b) |-> IF i < z THEN b[i] ELSE IF i = z THEN 1 ELSE 0]

\* A numeral of a multiple of LIMB_BITS digits as limbs, most significant first
ToLimbs(b) ==
  [j \in 1..(Len(b) \div LIMB_BITS) |->
     BitsNat(SubSeq(b, (j - 1) * LIMB_BITS + 1, j * LIMB_BITS))]

\* and back
FromLimbs(l) ==
  [i \in 1..(LIMB_BITS * Len(l)) |->
     (l[(i - 1) \div LIMB_BITS + 1] \div Pow2(LIMB_BITS - 1 - ((i - 1) % LIMB_BITS))) % 2]

\* An integer as a number
IntToDouble(x) == [neg |-> x < 0, bits |-> NatBits(Abs(x)), exp |-> 0]

\* The number nearest to (p + rest) * 2^exp, p a numeral of any length with
\* first digit 1 and 0 <= rest < 1, rest > 0 iff inexact
RoundDouble(neg, p, exp, inexact) ==
  LET over == Len(p) - MANTISSA_BITS
  IN IF over <= 0 THEN [neg |-> neg, bits |-> p, exp |-> exp]
     ELSE LET kept == SubSeq(p, 1, MANTISSA_BITS)
              sticky == inexact \/ \E i \in (MANTISSA_BITS + 2)..Len(p) : p[i] = 1
              up == p[MANTISSA_BITS + 1] = 1 /\ (sticky \/ kept[MANTISSA_BITS] = 1)
              inc == IncBits(kept)
          IN IF ~ up THEN [neg |-> neg, bits |-> kept, exp |-> exp + over]
             ELSE IF Len(inc) > MANTISSA_BITS
             THEN [neg |-> neg, bits |-> SubSeq(inc, 1, MANTISSA_BITS), exp |-> exp + over + 1]
             ELSE [neg |-> neg, bits |-> inc, exp |-> exp + over]

RECURSIVE LongDiv(_, _, _, _)
\* Long division by d < LIMB / 2: the quotient limbs q so far, the remainder
\* r, and the limbs of the dividend still to take
LongDiv(limbs, d, q, r) ==
  IF limbs = <<>> THEN [q |-> q, r |-> r]
  ELSE LET v == r * LIMB + Head(limbs)
       IN LongDiv(Tail(limbs), d, Append(q, v \div d), v % d)

\* f / d for an integer 0 < d < LIMB / 2: the dividend is carried on by zeros
\* to five limbs, which gives the quotient more than MANTISSA_BITS + 1 digits
DivDouble(f, d) ==
  IF f.bits = <<>> THEN f
  ELSE LET more == 5 * LIMB_BITS - Len(f.bits)
           a == LongDiv(ToLimbs(f.bits \o Zeros(more)), d, <<>>, 0)
       IN RoundDouble(f.neg, StripZeros(FromLimbs(a.q)), f.exp - more, a.r # 0)

RECURSIVE MulLimbs(_, _, _)
\* The limbs of limbs * k + carry, least significant limb last, for k < LIMB / 2
MulLimbs(limbs, k, carry) ==
  IF limbs = <<>> THEN <<carry>>
  ELSE LET v == limbs[Len(limbs)] * k + carry
       IN Append(MulLimbs(SubSeq(limbs, 1, Len(limbs) - 1), k, v \div LIMB), v % LIMB)

\* f * k for an integer 0 < k < LIMB / 2
MulDouble(f, k) ==
  IF f.bits = <<>> THEN f
  ELSE LET padded == Zeros(4 * LIMB_BITS - Len(f.bits)) \o f.bits
           p == StripZeros(FromLimbs(MulLimbs(ToLimbs(padded), k, 0)))
       IN RoundDouble(f.neg, p, f.exp, FALSE)

\* Math.floor
FloorDouble(f) ==
  IF f.bits = <<>> THEN 0
  ELSE IF f.exp >= 0
  THEN (IF f.neg THEN -1 ELSE 1) * BitsNat(f.bits) * Pow2(f.exp)
  ELSE LET k == Max2(Len(f.bits) + f.exp, 0)
           whole == BitsNat(SubSeq(f.bits, 1, k))
           frac == \E i \in (k + 1)..Len(f.bits) : f.bits[i] = 1
       IN IF f.neg THEN -(whole + (IF frac THEN 1 ELSE 0)) ELSE whole

\* A point's time as the code holds it, in seconds: (s.ts - sessionStart) / 1000
Seconds(ms) == DivDouble(IntToDouble(ms), 1000)

BinKey_Exact(p, binMs) == p.time \div binMs

\* Math.floor((s.time * 1000) / binMs)
BinKey(p, binMs) == FloorDouble(DivDouble(MulDouble(Seconds(p.time), 1000), binMs))

\* binAndAggregate: one point per sample when binMs <= 0, else one point per
\* bin key in ascending key order; time and sensorValue are the quotients
\* sumTime / count and sumVal / count.
BinAndAggregate(samples, binMs) ==
  IF binMs <= 0
  THEN [i \in 1..Len(samples) |->
          [time |-> Frac(samples[i].time, 1),
           sensorValue |-> Frac(samples[i].sensorValue, 1),
           count |-> 1, min |-> samples[i].sensorValue, max |-> samples[i].sensorValue]]
  ELSE LET keys == SortAsc({ BinKey(samples[i], binMs) : i \in 1..Len(samples) })
           idx(k) == { i \in 1..Len(samples) : BinKey(samples[i], binMs) = k }
           Sum(f, S) ==
             LET RECURSIVE sum(_)
                 sum(T) == IF T = {} THEN 0
                           ELSE LET x == CHOOSE y \in T : TRUE
                                IN f[x] + sum(T \ {x})
             IN sum(S)
           times == [i \in 1..Len(samples) |-> samples[i].time]
           vals == [i \in 1..Len(samples) |-> samples[i].sensorValue]
       IN [j \in 1..Len(keys) |->
             LET S == idx(keys[j])
             IN [time |-> Frac(Sum(times, S), Cardinality(S)),
                 sensorValue |-> Frac(Sum(vals, S), Cardinality(S)),
                 count |-> Cardinality(S),
                 min |-> SetMin({ vals[i] : i \in S }),
                 max |-> -SetMin({ -vals[i] : i \in S })]]

\* display1 / display2
Display(pts) == [i \in 1..Len(pts) |-> [time |-> pts[i].time,
                                       sensorValue |-> pts[i].sensorValue]]

RecordingActive_IgnorePause(rec, paused) == rec

\* isRecording && !isPausedRecordingRef.current
RecordingActive(rec, paused) == rec /\ ~ paused

NewSamples_FromStart(arr, prev) == arr

NewSamples_SkipOne(arr, prev) ==
  LET p == IF Len(arr) < prev THEN 0 ELSE prev
  IN IF Len(arr) > p + 1 THEN SubSeq(arr, p + 2, Len(arr)) ELSE <<>>

\* The samples after the previously seen length; a shrunken array is read
\* again from its start.
NewSamples(arr, prev) ==
  LET p == IF Len(arr) < prev THEN 0 ELSE prev
  IN IF Len(arr) > p THEN SubSeq(arr, p + 1, Len(arr)) ELSE <<>>

RecordedPoints_Binned(raw, binned) ==
  [i \in 1..Len(binned) |->
     [time |-> binned[i].time.num \div binned[i].time.den,
      sensorValue |-> binned[i].sensorValue.num \div binned[i].sensorValue.den,
      id |-> raw[i].id]]

\* What a tick appends to a channel's recording buffer:
\* toAppendRaw.map(p => ({time, sensorValue})), the samples before binning
RecordedPoints(raw, binned) == raw

\* The setInterval(tick, 100) callback in a build whose BIN_MS is binMs; the
\* interval exists while connected and measuring.
TickWith(binMs) ==
  /\ isConnected
  /\ isMeasuring
  /\ LET s1 == imuData.imu1_changes
         s2 == imuData.imu2_changes
         newS1 == NewSamples(s1, prevImuLen.s1)
         newS2 == NewSamples(s2, prevImuLen.s2)
     IN IF newS1 = <<>> /\ newS2 = <<>>
        THEN UNCHANGED <<panelVars, flushing, pausedSeen>>
        ELSE LET minTs == SetMin({ newS1[i].ts : i \in 1..Len(newS1) }
                                 \cup { newS2[i].ts : i \in 1..Len(newS2) })
                 start == IF sessionStart = <<>> THEN minTs ELSE sessionStart[1]
                 toAppend1Raw == PushWithTs(newS1, start)
                 toAppend2Raw == PushWithTs(newS2, start)
                 toAppend1 == BinAndAggregate(toAppend1Raw, binMs)
                 toAppend2 == BinAndAggregate(toAppend2Raw, binMs)
                 rec == RecordingActive(isRecording, isPausedRecording)
             IN /\ sessionStart' = <<start>>
                /\ queuedS1' = queuedS1 \o Display(toAppend1)
                /\ queuedS2' = queuedS2 \o Display(toAppend2)
                /\ recorded' =
                     [sensor1 |-> IF Len(toAppend1) > 0 /\ rec
                                  THEN recorded.sensor1
                                         \o RecordedPoints(toAppend1Raw, toAppend1)
                                  ELSE recorded.sensor1,
                      sensor2 |-> IF Len(toAppend2) > 0 /\ rec
                                  THEN recorded.sensor2
                                         \o RecordedPoints(toAppend2Raw, toAppend2)
                                  ELSE recorded.sensor2]
                /\ flushing' = TRUE
                /\ prevImuLen' = [s1 |-> Len(s1), s2 |-> Len(s2)]
                /\ pausedSeen' = IF isPausedRecording
                                 THEN pausedSeen \cup { newS1[i].id : i \in 1..Len(newS1) }
                                                 \cup { newS2[i].id : i \in 1..Len(newS2) }
                                 ELSE pausedSeen
                /\ UNCHANGED <<isMeasuring, isRecording, isPausedRecording, markers>>
  /\ UNCHANGED provVars
  /\ UNCHANGED <<sensor1Data, sensor2Data, snapVars, fnVars>>
  /\ UNCHANGED <<received, handled, pushLog, trimCount, lastResetNid, offered>>

\* The callback in the build as it is
Tick == TickWith(BIN_MS)

\* ------------------------------------------------------------ chart flush
CHART_WINDOW_SIZE == 200
FLUSH_PER_FRAME == 8

FracLess(a, b) == a.num * b.den < b.num * a.den
FracLeq(a, b) == a.num * b.den <= b.num * a.den
FracAdd(a, b) == Frac(a.num * b.den + b.num * a.den, a.den * b.den)

\* EPS_SEC = 0.0005 s, in milliseconds
EPS_MS == Frac(1, 2)

\* arr.slice(-n)
LastN(arr, n) == IF Len(arr) > n THEN SubSeq(arr, Len(arr) - n + 1, Len(arr)) ELSE arr

RECURSIVE ClampTimes(_, _)
\* The loop of clampAppend; lastTime is <<>> (-Infinity) or <<time>>.
ClampTimes(newPts, lastTime) ==
  IF newPts = <<>> THEN <<>>
  ELSE LET p == Head(newPts)
           t == IF lastTime # <<>> /\ ~ FracLess(lastTime[1], p.time)
                THEN FracAdd(lastTime[1], EPS_MS)
                ELSE p.time
       IN <<[p EXCEPT !.time = t]>> \o ClampTimes(Tail(newPts), <<t>>)

ClampAppend(prevArr, newPts) ==
  IF newPts = <<>> THEN LastN(prevArr, CHART_WINDOW_SIZE)
  ELSE LET lastTime == IF Len(prevArr) > 0 THEN <<prevArr[Len(prevArr)].time>> ELSE <<>>
       IN LastN(prevArr \o ClampTimes(newPts, lastTime), CHART_WINDOW_SIZE)

\* The requestAnimationFrame(flush) callback
Flush ==
  /\ flushing
  /\ LET n1 == Min2(FLUSH_PER_FRAME, Len(queuedS1))
         n2 == Min2(FLUSH_PER_FRAME, Len(queuedS2))
     IN /\ sensor1Data' = IF n1 > 0 THEN ClampAppend(sensor1Data, SubSeq(queuedS1, 1, n1))
                           ELSE sensor1Data
        /\ sensor2Data' = IF n2 > 0 THEN ClampAppend(sensor2Data, SubSeq(queuedS2, 1, n2))
                           ELSE sensor2Data
        /\ queuedS1' = SubSeq(queuedS1, n1 + 1, Len(queuedS1))
        /\ queuedS2' = SubSeq(queuedS2, n2 + 1, Len(queuedS2))
        /\ flushing' = (n1 > 0 \/ n2 > 0)
  /\ UNCHANGED provVars
  /\ UNCHANGED <<isMeasuring, isRecording, isPausedRecording, prevImuLen, sessionStart,
                 recorded, markers>>
  /\ UNCHANGED <<snapVars, fnVars, histVars>>

\* ------------------------------------------------------ parameter snapshots
\* "N/A"
NA == <<78, 47, 65>>

\* v || 'N/A'
OrNA(v) == IF v = <<>> THEN NA ELSE v

\* rec[k] || ''
OrEmpty(rec, k) == IF k \in DOMAIN rec THEN rec[k] ELSE <<>>

RECURSIVE DigitsValue(_, _, _)
DigitsValue(str, i, acc) ==
  IF i <= Len(str) /\ str[i] >= 48 /\ str[i] <= 57
  THEN DigitsValue(str, i + 1, 10 * acc + (str[i] - 48))
  ELSE acc

\* parseInt of an unsigned input: <<>> (NaN) or <<the value of the leading digits>>
ParseInt(str) ==
  IF Len(str) > 0 /\ str[1] >= 48 /\ str[1] <= 57
  THEN <<DigitsValue(str, 1, 0)>>
  ELSE <<>>

\* The params object handleApplyModify passes to pushParamSnapshot
SnapshotParams(in) ==
  [frequency |-> OrNA(in.frequency), rampUp |-> OrNA(in.rampUp),
   rampDown |-> OrNA(in.rampDown), offTime |-> OrNA(in.offTime),
   electrode1 |-> OrNA(in.electrode1), electrode2 |-> OrNA(in.electrode2)]

\* Object.keys(params).every(k => (last[k]||'') === (params[k]||''))
SameParams(last, params) ==
  \A k \in DOMAIN params : OrEmpty(last, k) = OrEmpty(params, k)

PushParamSnapshot_NoSuppress(arr, time, params) ==
  Append(arr, [time |-> time, params |-> params])

PushParamSnapshot(arr, time, params) ==
  IF Len(arr) > 0 /\ SameParams(arr[Len(arr)].params, params)
  THEN arr
  ELSE Append(arr, [time |-> time, params |-> params])

\* An input field's onChange
SetInput(field, value) ==
  /\ inputs[field] # value
  /\ inputs' = [inputs EXCEPT ![field] = value]
  /\ UNCHANGED <<paramSnapshots, applying>>
  /\ UNCHANGED <<provVars, panelVars, dispVars, fnVars, histVars>>

\* The range checks of handleApplyModify on frequency and offTime
InputsValid(in) ==
  /\ in.frequency # <<>> =>
       /\ ParseInt(in.frequency) # <<>>
       /\ ParseInt(in.frequency)[1] >= 15 /\ ParseInt(in.frequency)[1] <= 50
  /\ in.offTime # <<>> =>
       /\ ParseInt(in.offTime) # <<>>
       /\ ParseInt(in.offTime)[1] >= 0 /\ ParseInt(in.offTime)[1] <= 99

\* The Modify button (disabled unless connected), up to the awaited commands:
\* what runs after them sees the isRecording, the inputs and the chart data of
\* the render the click happened in.
HandleApplyModify ==
  /\ isConnected
  /\ Len(applying) < MaxApplying
  /\ Len(paramSnapshots) + Len(applying) < MaxSnaps
  /\ applying' = IF InputsValid(inputs)
                  THEN Append(applying, [isRecording |-> isRecording, inputs |-> inputs,
                                         sensor1Data |-> sensor1Data,
                                         sensor2Data |-> sensor2Data])
                  ELSE applying
  /\ UNCHANGED <<inputs, paramSnapshots>>
  /\ UNCHANGED <<provVars, panelVars, dispVars, fnVars, histVars>>

\* latestTime of handleApplyModify, from the recording buffer as it is now
\* and the chart data of the click's render
LatestTime(rec, s1Data, s2Data) ==
  IF Len(rec.sensor1) > 0 THEN Frac(rec.sensor1[Len(rec.sensor1)].time, 1)
  ELSE IF Len(rec.sensor2) > 0 THEN Frac(rec.sensor2[Len(rec.sensor2)].time, 1)
  ELSE IF Len(s1Data) > 0 THEN s1Data[Len(s1Data)].time
  ELSE IF Len(s2Data) > 0 THEN s2Data[Len(s2Data)].time
  ELSE Frac(0, 1)

\* handleApplyModify after its awaits; ok is the answer to window.confirm
ApplyModifyResume(i, ok) ==
  /\ i \in 1..Len(applying)
  /\ LET c == applying[i]
         params == SnapshotParams(c.inputs)
     IN paramSnapshots' =
          IF ~ c.isRecording THEN PushParamSnapshot(paramSnapshots, Frac(0, 1), params)
          ELSE IF ok THEN PushParamSnapshot(paramSnapshots,
                            LatestTime(recorded, c.sensor1Data, c.sensor2Data), params)
          ELSE paramSnapshots
  /\ applying' = SubSeq(applying, 1, i - 1) \o SubSeq(applying, i + 1, Len(applying))
  /\ UNCHANGED inputs
  /\ UNCHANGED <<provVars, panelVars, dispVars, fnVars, histVars>>

\* ------------------------------------------------------------------ export
RECURSIVE SortByTime(_)
\* snaps.slice().sort((a, b) => a.time - b.time): stable, ascending by time
SortByTime(snaps) ==
  IF snaps = <<>> THEN <<>>
  ELSE LET front == SortByTime(SubSeq(snaps, 1, Len(snaps) - 1))
           x == snaps[Len(snaps)]
           k == Cardinality({ j \in 1..Len(front) : FracLeq(front[j].time, x.time) })
       IN SubSeq(front, 1, k) \o <<x>> \o SubSeq(front, k + 1, Len(front))

\* The params of a row when no snapshot exists: the current input values
LiveParams(in) ==
  [frequency |-> OrNA(in.frequency), amplitude |-> OrNA(in.amplitude),
   electrode1 |-> OrNA(in.electrode1), electrode2 |-> OrNA(in.electrode2)]

AdvanceIdx_OneStep(snaps, snapIdx, t) ==
  IF snapIdx + 1 < Len(snaps) /\ FracLeq(snaps[snapIdx + 2].time, Frac(t, 1))
  THEN snapIdx + 1
  ELSE snapIdx

RECURSIVE AdvanceIdx(_, _, _)
\* while (snapIdx + 1 < snaps.length && snaps[snapIdx + 1].time <= t) snapIdx++
\* (snapIdx counts from 0 as in the code)
AdvanceIdx(snaps, snapIdx, t) ==
  IF snapIdx + 1 < Len(snaps) /\ FracLeq(snaps[snapIdx + 2].time, Frac(t, 1))
  THEN AdvanceIdx(snaps, snapIdx + 1, t)
  ELSE snapIdx

RECURSIVE WalkRows(_, _, _, _)
\* The loop of handleSaveRecording over the sorted times: paramsForRow of each row
WalkRows(times, snaps, live, snapIdx) ==
  IF times = <<>> THEN <<>>
  ELSE LET t == Head(times)
           idx == AdvanceIdx(snaps, snapIdx, t)
           paramsForRow ==
             IF Len(snaps) = 0 THEN live
             ELSE IF FracLeq(snaps[idx + 1].time, Frac(t, 1)) THEN snaps[idx + 1].params
             ELSE snaps[1].params
       IN <<[time |-> t, params |-> paramsForRow]>>
          \o WalkRows(Tail(times), snaps, live, idx)

\* The rows' parameters for recorded times and stored snapshots
SnapshotLookup(times, snapsRef, in) ==
  WalkRows(times, SortByTime(snapsRef), LiveParams(in), 0)

\* ------------------------------------------------------------ specification
\* The pipeline under a measurement that keeps running: every buffer and gap.
Next ==
  \/ Connect
  \/ HandleStartIMU
  \/ \E b \in Buffers, g \in Gaps : HandleIncomingData(b, g, MaxNotifs)
  \/ ProcessRawQueue
  \/ ChunkedDrain
  \/ ProcessNextChunk

Spec == Init /\ [][Next]_vars

\* The pipeline together with the panel's controls and poll.
NextPanel ==
  \/ \E b \in PanelBuffers, g \in PanelGaps : HandleIncomingData(b, g, MaxPanelNotifs)
  \/ ProcessRawQueue
  \/ ChunkedDrain
  \/ ProcessNextChunk
  \/ Connect
  \/ Disconnect
  \/ HandleDisconnection
  \/ HandleStartIMU
  \/ HandleStopIMU
  \/ StopIMUDone
  \/ HandleStartRecording
  \/ HandleStopRecording
  \/ HandleTogglePauseRecording
  \/ Tick

SpecPanel == Init /\ [][NextPanel]_vars

\* The panel's parameter snapshots during measurement and recording.
NextSnap ==
  \/ \E b \in SnapBuffers, g \in PanelGaps : HandleIncomingData(b, g, MaxSnapNotifs)
  \/ ProcessRawQueue
  \/ ChunkedDrain
  \/ ProcessNextChunk
  \/ Connect
  \/ HandleStartIMU
  \/ HandleStartRecording
  \/ HandleStopRecording
  \/ Tick
  \/ Flush
  \/ \E v \in FrequencyInputs : SetInput("frequency", v)
  \/ HandleApplyModify
  \/ \E i \in 1..MaxApplying, ok \in BOOLEAN : ApplyModifyResume(i, ok)

SpecSnap == Init /\ [][NextSnap]_vars

\* The pipeline when the decoder may throw on any notification.
NextFault ==
  \/ Connect
  \/ HandleStartIMU
  \/ \E b \in FaultBuffers, g \in Gaps : HandleIncomingData(b, g, MaxFaultNotifs)
  \/ \E T \in SUBSET (1..MaxFaultNotifs) : ProcessRawQueueWith(T)
  \/ ChunkedDrain
  \/ ProcessNextChunk

SpecFault == Init /\ [][NextFault]_vars

\* The decoder on its own: every buffer of up to MaxBytes bytes 0, 8 or 255.
ByteValues == {0, 8, 255}
DecodeInputs(maxLen) == UNION { [1..n -> ByteValues] : n \in 0..maxLen }

InitDecode ==
  /\ InitProgram
  /\ fnIn \in { <<b>> : b \in DecodeInputs(MaxBytes) }
  /\ fnOut = <<>>

ApplyDecode ==
  /\ fnIn # <<>>
  /\ fnOut = <<>>
  /\ fnOut' = <<ProcessRawBytesAsMagnitudes(fnIn[1])>>
  /\ UNCHANGED <<provVars, panelVars, dispVars, snapVars, fnIn, histVars>>

NextDecode == ApplyDecode

SpecDecode == InitDecode /\ [][NextDecode]_vars

\* The aligner on its own: per channel up to MaxAlignSamples samples with
\* timestamps 10, 19.5, 25 or 30; a sample's value tells its channel and its
\* position.
AlignTs == { [num |-> 10, den |-> 1], [num |-> 39, den |-> 2],
             [num |-> 25, den |-> 1], [num |-> 30, den |-> 1] }
AlignTsLists(maxLen) == UNION { [1..n -> AlignTs] : n \in 0..maxLen }
AlignSamples(tsList, ch) ==
  [i \in 1..Len(tsList) |-> [value |-> 10 * ch + i, ts |-> tsList[i]]]
AlignInputs(maxLen) ==
  { [s1 |-> AlignSamples(a, 1), s2 |-> AlignSamples(b, 2)] :
      a \in AlignTsLists(maxLen), b \in AlignTsLists(maxLen) }

InitAlign ==
  /\ InitProgram
  /\ fnIn \in { <<x>> : x \in AlignInputs(MaxAlignSamples) }
  /\ fnOut = <<>>

ApplyAlign ==
  /\ fnIn # <<>>
  /\ fnOut = <<>>
  /\ fnOut' = <<AlignedPairs(SamplesToMap(fnIn[1].s1), SamplesToMap(fnIn[1].s2), 0)>>
  /\ UNCHANGED <<provVars, panelVars, dispVars, snapVars, fnIn, histVars>>

NextAlign == ApplyAlign

SpecAlign == InitAlign /\ [][NextAlign]_vars

\* The export's snapshot lookup on its own: recorded times in ascending order,
\* without repetition, and snapshot lists in time order.
ExportTimes == {0, 5, 10, 20}
ExportSnapChoices ==
  { [time |-> Frac(t, 1), params |-> SnapshotParams([InitialInputs EXCEPT !.frequency = f])] :
      t \in {0, 10, 20}, f \in { <<>>, <<50, 48>> } }
ExportInputs(maxSnaps) ==
  { [times |-> SortAsc(T), snaps |-> sn] :
      T \in SUBSET ExportTimes,
      sn \in { q \in UNION { [1..n -> ExportSnapChoices] : n \in 0..maxSnaps } :
                 \A j \in 1..(Len(q) - 1) : FracLeq(q[j].time, q[j + 1].time) } }

InitExport ==
  /\ InitProgram
  /\ fnIn \in { <<x>> : x \in ExportInputs(MaxExportSnaps) }
  /\ fnOut = <<>>

ApplySnapshotLookup ==
  /\ fnIn # <<>>
  /\ fnOut = <<>>
  /\ fnOut' = <<SnapshotLookup(fnIn[1].times, fnIn[1].snaps, inputs)>>
  /\ UNCHANGED <<provVars, panelVars, dispVars, snapVars, fnIn, histVars>>

NextExport == ApplySnapshotLookup

SpecExport == InitExport /\ [][NextExport]_vars

\* Measuring and recording in builds with and without binning: BIN_MS is a
\* constant of the build; a run in which every tick may take either width
\* has the ticks of both builds.
DisplayBinWidths == {BIN_MS, 50}

NextRecord ==
  \/ \E b \in FaultBuffers, g \in PanelGaps : HandleIncomingData(b, g, MaxPanelNotifs)
  \/ ProcessRawQueue
  \/ ChunkedDrain
  \/ ProcessNextChunk
  \/ Connect
  \/ HandleStartIMU
  \/ HandleStartRecording
  \/ HandleStopRecording
  \/ HandleTogglePauseRecording
  \/ \E w \in DisplayBinWidths : TickWith(w)

SpecRecord == Init /\ [][NextRecord]_vars

\* handleIMUData on one notification: no bytes, one group or three groups,
\* with or without a previous notification (at 0 or 1000 ms), arriving at a
\* time around each limit of the interval rule, its payload seen at the
\* previous notification or never.
IntervalBuffers == { <<>>, <<255, 7, 0, 8>>,
                     <<0, 0, 0, 8, 255, 15, 255, 255, 0, 8, 1, 8, 9, 9, 9>> }
IntervalLasts == { <<>>, <<0>>, <<1000>> }
IntervalArrivals == {1000, 1004, 1005, 1014, 1015, 1100, 10999, 11000, 30999, 31000}
IntervalInputs ==
  { [st |-> [InitialRefs EXCEPT
               !.lastNotificationTs = last,
               !.recentRawHash =
                  IF seen /\ last # <<>>
                  THEN MapSet(<<>>, RawHash(ProcessRawBytesAsMagnitudes(b).raw1s,
                                            ProcessRawBytesAsMagnitudes(b).raw2s), last[1])
                  ELSE <<>>,
               !.now = 31000],
     item |-> [bytes |-> b, arrivalTs |-> t, nid |-> 1]] :
      last \in IntervalLasts, seen \in BOOLEAN, b \in IntervalBuffers,
      t \in IntervalArrivals }

InitInterval ==
  /\ InitProgram
  /\ fnIn \in { <<x>> : x \in IntervalInputs }
  /\ fnOut = <<>>

ApplyHandleIMUData ==
  /\ fnIn # <<>>
  /\ fnOut = <<>>
  /\ fnOut' = <<HandleIMUData(fnIn[1].st, fnIn[1].item)>>
  /\ UNCHANGED <<provVars, panelVars, dispVars, snapVars, fnIn, histVars>>

NextInterval == ApplyHandleIMUData

SpecInterval == InitInterval /\ [][NextInterval]_vars

\* The provider fed the one-sample and the three-sample notification only,
\* at every gap: the runs on which decoding is replayed from the start
NextTiming ==
  \/ Connect
  \/ HandleStartIMU
  \/ \E b \in FaultBuffers, g \in Gaps : HandleIncomingData(b, g, MaxNotifs)
  \/ ProcessRawQueue
  \/ ChunkedDrain
  \/ ProcessNextChunk

SpecTiming == Init /\ [][NextTiming]_vars

\* The provider fed notifications that are 100, 2000 or 2001 ms apart, so
\* that recorded payloads grow older than the purge age
PurgeGaps == {100, DUP_WINDOW_MS * PURGE_FACTOR, DUP_WINDOW_MS * PURGE_FACTOR + 1}

NextPurge ==
  \/ Connect
  \/ HandleStartIMU
  \/ \E b \in FaultBuffers, g \in PurgeGaps : HandleIncomingData(b, g, MaxNotifs)
  \/ ProcessRawQueue
  \/ ChunkedDrain
  \/ ProcessNextChunk

SpecPurge == Init /\ [][NextPurge]_vars

\* The provider with its timers firing: a raw-queue tick that is pending
\* runs (setTimeout), the drain interval keeps ticking (setInterval), and a
\* sub-chunk that is scheduled runs (setTimeout).  Notifications arrive
\* 100 or 250 ms apart, for as long as the device sends them.
LiveGaps == {100, DUP_WINDOW_MS}

NextLive ==
  \/ Connect
  \/ HandleStartIMU
  \/ \E b \in FaultBuffers, g \in LiveGaps : HandleIncomingData(b, g, MaxNotifs)
  \/ ProcessRawQueue
  \/ ChunkedDrain
  \/ ProcessNextChunk

\* A raw-queue tick is scheduled: the tick can run, and running it changes
\* the state
RawTickPending == rawTimers > 0

\* Weak fairness of the raw-queue tick, with its enabling condition written
\* out, and of the two drain callbacks
SpecLive ==
  /\ Init
  /\ [][NextLive]_vars
  /\ ([]<>(~ RawTickPending) \/ []<><<ProcessRawQueue>>_vars)
  /\ WF_vars(ChunkedDrain)
  /\ WF_vars(ProcessNextChunk)

\* The provider fed a stream of notifications 100 or 150 ms apart, so that a
\* payload comes again within the window of a suppressed one and outside
\* the window of the one accepted before it
StreamGaps == {100, 150}

NextStream ==
  \/ Connect
  \/ HandleStartIMU
  \/ \E b \in FaultBuffers, g \in StreamGaps : HandleIncomingData(b, g, MaxNotifs)
  \/ ProcessRawQueue
  \/ ChunkedDrain
  \/ ProcessNextChunk

SpecStream == Init /\ [][NextStream]_vars

\* The timestamp synthesis on its own: up to MaxSynthSamples samples, an
\* arrival time of 1000, 1000.4, 1000.5 or 1000.6 ms (performance.now() has
\* sub-millisecond resolution) and an interval of 5, 12.5, 20, 100/3 or
\* 9999.5 ms; a sample's value is its position.
SynthArrivals == { [num |-> 1000, den |-> 1], [num |-> 5002, den |-> 5],
                   [num |-> 2001, den |-> 2], [num |-> 5003, den |-> 5] }
SynthIntervals == { [num |-> 5, den |-> 1], [num |-> 25, den |-> 2],
                    [num |-> 20, den |-> 1], [num |-> 100, den |-> 3],
                    [num |-> 19999, den |-> 2] }
SynthInputs(maxLen) ==
  { [arr |-> [i \in 1..n |-> i], baseTs |-> t, itv |-> v] :
      n \in 0..maxLen, t \in SynthArrivals, v \in SynthIntervals }

\* The timestamps the samples of a channel go by from the aligner on:
\* Math.round(s.ts), in sample order
RoundedTs(samples) ==
  [i \in 1..Len(samples) |-> MathRound(samples[i].ts.num, samples[i].ts.den)]

InitSynth ==
  /\ InitProgram
  /\ fnIn \in { <<x>> : x \in SynthInputs(MaxSynthSamples) }
  /\ fnOut = <<>>

\* makeSamples on both channels, then the alignment of the two
ApplyMakeSamples ==
  /\ fnIn # <<>>
  /\ fnOut = <<>>
  /\ LET samples == MakeSamplesAt(fnIn[1].arr, fnIn[1].baseTs, fnIn[1].itv)
     IN fnOut' = <<[ts |-> RoundedTs(samples),
                    aligned |-> AlignedPairs(SamplesToMap(samples),
                                             SamplesToMap(samples), 1)]>>
  /\ UNCHANGED <<provVars, panelVars, dispVars, snapVars, fnIn, histVars>>

NextSynth == ApplyMakeSamples

SpecSynth == InitSynth /\ [][NextSynth]_vars

\* The binner on its own: batches of up to MaxBinSamples samples, in any
\* order, at -5, 0, 7, 2005 or 2010 ms with value 1 or 4, for a bin width of
\* -10, 0 or 10 ms.
BinTimes == {-5, 0, 7, 2005, 2010}
BinValues == {1, 4}
BinWidths == {-10, 0, 10}
BinSamples == { [time |-> t, sensorValue |-> v] : t \in BinTimes, v \in BinValues }
BinInputs(maxLen) ==
  { [samples |-> q, binMs |-> w] :
      q \in UNION { [1..n -> BinSamples] : n \in 0..maxLen }, w \in BinWidths }

InitBin ==
  /\ InitProgram
  /\ fnIn \in { <<x>> : x \in BinInputs(MaxBinSamples) }
  /\ fnOut = <<>>

ApplyBinAndAggregate ==
  /\ fnIn # <<>>
  /\ fnOut = <<>>
  /\ fnOut' = <<BinAndAggregate(fnIn[1].samples, fnIn[1].binMs)>>
  /\ UNCHANGED <<provVars, panelVars, dispVars, snapVars, fnIn, histVars>>

NextBin == ApplyBinAndAggregate

SpecBin == InitBin /\ [][NextBin]_vars

\* ================================================================== claims
Imu1 == imuData.imu1_changes
Imu2 == imuData.imu2_changes
IdsOf(q) == [i \in 1..Len(q) |-> q[i].id]
IdLess(a, b) == a[1] < b[1] \/ (a[1] = b[1] /\ a[2] < b[2])
StrictlyAscendingIds(q) == \A i \in 1..(Len(q) - 1) : IdLess(q[i], q[i + 1])
Suffix(q, n) == SubSeq(q, Len(q) - n + 1, Len(q))

\* C1: at every callback boundary the pending-pair queue holds at most
\* PENDING_CAP pairs, it is the most recently pushed pairs in push order, and a
\* notification whose pairs would take it past the cap leaves it at exactly
\* PENDING_CAP (only the front is removed).
C1_PendingBounded ==
  /\ Len(pairs) <= PENDING_CAP
  /\ IdsOf(pairs) = Suffix(pushLog, Len(pairs))
  /\ \A j \in 1..Len(handled) :
       handled[j].before + handled[j].pushed > PENDING_CAP
         => handled[j].after = PENDING_CAP

\* C1 witness: the overflow trim has removed pairs and the queue is full.
C1_Witness ==
  /\ trimCount > 0
  /\ Len(pairs) = PENDING_CAP
  /\ Len(pushLog) > PENDING_CAP

\* C2: a notification whose raw payload equals that of a notification stage 1
\* recorded less than DUP_WINDOW_MS before its arrival (arrival times >= 0) is
\* discarded whole: it is flagged duplicate and pushes no pair.
C2_Stage1Debounce ==
  \A i, j \in 1..Len(handled) :
    ( /\ i < j
      /\ ~ handled[i].dup
      /\ handled[i].baseTs >= 0
      /\ handled[i].hash = handled[j].hash
      /\ handled[j].baseTs - handled[i].baseTs < DUP_WINDOW_MS )
    => (handled[j].dup /\ handled[j].pushed = 0 /\ handled[j].after = handled[j].before)

\* C3: stage 1 discards a notification only if an identical payload was
\* recorded less than DUP_WINDOW_MS before it; every other notification (so
\* identical payloads 250 ms or more apart, and different payloads) pushes all
\* of its aligned pairs.
C3_NoSpuriousSuppression ==
  \A j \in 1..Len(handled) :
    /\ handled[j].dup =>
         \E i \in 1..(j - 1) :
           /\ ~ handled[i].dup
           /\ handled[i].hash = handled[j].hash
           /\ handled[j].baseTs - handled[i].baseTs < DUP_WINDOW_MS
    /\ (~ \E i \in 1..(j - 1) :
            /\ handled[i].hash = handled[j].hash
            /\ handled[j].baseTs - handled[i].baseTs < DUP_WINDOW_MS)
         => handled[j].pushed = handled[j].aligned

\* C3 witness: the same payload decoded twice, 250 ms or more apart, and both
\* pushed their pairs.
C3_Witness ==
  \E i, j \in 1..Len(handled) :
    /\ i < j
    /\ handled[i].hash = handled[j].hash
    /\ handled[j].baseTs - handled[i].baseTs >= DUP_WINDOW_MS
    /\ handled[i].pushed > 0
    /\ handled[j].pushed > 0

SameEntry(q1, q2, i, j) ==
  /\ q1[i].ts = q1[j].ts /\ q2[i].ts = q2[j].ts
  /\ q1[i].value = q1[j].value /\ q2[i].value = q2[j].value

NoAdjacentDuplicate(imu) ==
  \A k \in 1..(Len(imu.imu1_changes) - 1) :
    ~ SameEntry(imu.imu1_changes, imu.imu2_changes, k, k + 1)

\* The pairs of chunk that differ (in a timestamp or a value) from the pair
\* before them, the pair before the first being the tail of the store.
FreshInChunk(imu, chunk) ==
  { k \in 1..Len(chunk) :
      IF k = 1
      THEN \/ Len(imu.imu1_changes) = 0
           \/ ~ SamePair(imu.imu1_changes[Len(imu.imu1_changes)],
                         imu.imu2_changes[Len(imu.imu2_changes)], chunk[1])
      ELSE ~ SamePair(chunk[k - 1].s1, chunk[k - 1].s2, chunk[k]) }

\* C4: a drained pair equal in both timestamps and both values to the most
\* recently appended pair leaves the live store unchanged (a sub-chunk grows
\* the store by exactly its pairs that differ from their predecessor), and the
\* live store never holds two adjacent entries equal in timestamp and values.
C4_TailDedupe ==
  [][ /\ NoAdjacentDuplicate(imuData')
      /\ Len(pairs') < Len(pairs) =>
           LET chunk == SubSeq(pairs, 1, Len(pairs) - Len(pairs'))
           IN /\ Len(imuData'.imu1_changes) =
                   Len(Imu1) + Cardinality(FreshInChunk(imuData, chunk))
              /\ Len(imuData'.imu2_changes) = Len(imuData'.imu1_changes) ]_vars

\* C4 witness: everything pushed has been drained, nothing was trimmed, and
\* the live store holds fewer pairs than were pushed: stage 2 skipped one.
C4_Witness ==
  /\ pairs = <<>>
  /\ ~ draining
  /\ trimCount = 0
  /\ Len(pushLog) > Len(Imu1)
  /\ Len(Imu1) > 0

\* C5: each pair appended to the live store has a timestamp greater than or
\* equal to that of the pair appended before it.
C5_TimeOrdered ==
  \A k \in 1..(Len(Imu1) - 1) : Imu1[k].ts <= Imu1[k + 1].ts

\* C6: notifications are decoded in arrival order, pairs are pushed in that
\* order, and the live store followed by the pending queue is an
\* order-preserving subsequence of the pairs pushed.
C6_NoReorder ==
  /\ \A j \in 1..(Len(handled) - 1) : handled[j].nid < handled[j + 1].nid
  /\ StrictlyAscendingIds(pushLog)
  /\ StrictlyAscendingIds(IdsOf(Imu1) \o IdsOf(pairs))
  /\ IdsOf(Imu2) = IdsOf(Imu1)
  /\ Range(IdsOf(Imu1)) \subseteq Range(pushLog)

\* C6 witness: the live store holds pairs of two notifications and further
\* pairs wait in the pending queue.
C6_Witness ==
  /\ \E k \in 1..(Len(Imu1) - 1) : Imu1[k].id[1] < Imu1[k + 1].id[1]
  /\ Len(pairs) > 0

\* C7: right after a hard reset (clearIMU at start-sensors, or disconnect) the
\* raw queue, the pending-pair queue and the live store are empty, and no pair
\* of a notification received before the reset is appended to the live store
\* afterwards.
C7_HardReset ==
  [][ /\ (HandleStartIMU \/ Disconnect) =>
           (rawQueue' = <<>> /\ pairs' = <<>> /\ imuData' = EmptyImu)
      /\ \A k \in 1..Len(imuData'.imu1_changes) :
           imuData'.imu1_changes[k].id[1] > lastResetNid' ]_vars

\* C8: a poll tick that runs while recording is off or paused leaves both
\* channels' recording buffers unchanged and still forwards every new sample
\* to the display queues.
C8_RecordOnlyWhenActive ==
  [][ (Tick /\ (~ isRecording \/ isPausedRecording)) =>
        /\ recorded' = recorded
        /\ Len(queuedS1') = Len(queuedS1) + (Len(Imu1) - prevImuLen.s1)
        /\ Len(queuedS2') = Len(queuedS2) + (Len(Imu2) - prevImuLen.s2)
        /\ \A i \in 1..(Len(Imu1) - prevImuLen.s1) :
             queuedS1'[Len(queuedS1) + i].sensorValue =
               Frac(Imu1[prevImuLen.s1 + i].value, 1) ]_vars

\* C8 witness: paused during a recording that already holds samples, after a
\* tick that consumed samples while paused and forwarded them.
C8_Witness ==
  /\ isRecording /\ isPausedRecording
  /\ pausedSeen # {}
  /\ Len(recorded.sensor1) > 0
  /\ prevImuLen.s1 = Len(Imu1)
  /\ Len(queuedS1) > Len(recorded.sensor1)

\* C9: no sample that the poll consumed while paused is in the recording
\* buffer at any later time.
C9_ResumeNoReplay ==
  /\ \A i \in 1..Len(recorded.sensor1) : recorded.sensor1[i].id \notin pausedSeen
  /\ \A i \in 1..Len(recorded.sensor2) : recorded.sensor2[i].id \notin pausedSeen

\* C9 witness: one recording buffer holds a sample recorded before a pause and
\* a sample recorded after the resume, around a sample consumed while paused.
C9_Witness ==
  /\ isRecording /\ ~ isPausedRecording
  /\ \E i, j \in 1..Len(recorded.sensor1) : \E p \in pausedSeen :
       /\ IdLess(recorded.sensor1[i].id, p)
       /\ IdLess(p, recorded.sensor1[j].id)

\* C10: recording active implies measuring active, and paused implies
\* recording active (only Idle, Measuring, Recording, Paused are reached).
C10_FourStates ==
  /\ isRecording => isMeasuring
  /\ isPausedRecording => isRecording


\* C11: a disconnect from any state, requested by the user (disconnect) or
\* reported by the device (handleDisconnection), leaves measuring and recording
\* off and both the recording buffer and the live sample store empty.
C11_DisconnectClearsAll ==
  [][ (Disconnect \/ HandleDisconnection) =>
        /\ ~ isMeasuring' /\ ~ isRecording'
        /\ recorded' = EmptyRecorded
        /\ imuData' = EmptyImu ]_vars

SnapTimeLeq(i, j) == FracLeq(paramSnapshots[i].time, paramSnapshots[j].time)

\* C12: the stored parameter snapshots are in non-decreasing time order.
C12_SnapshotsTimeAscending ==
  \A i \in 1..(Len(paramSnapshots) - 1) : SnapTimeLeq(i, i + 1)

NoAdjacentSameParams ==
  \A k \in 1..(Len(paramSnapshots) - 1) :
     paramSnapshots[k].params # paramSnapshots[k + 1].params

\* C14: a call of pushParamSnapshot leaves the list unchanged when its params
\* are field for field the params of the last stored snapshot, and otherwise
\* appends one snapshot with these params; no two adjacent stored snapshots
\* have identical params.
C14_SnapshotDedupe ==
  /\ [] NoAdjacentSameParams
  /\ [][ \A i \in 1..Len(applying), ok \in BOOLEAN :
           (ApplyModifyResume(i, ok) /\ (~ applying[i].isRecording \/ ok)) =>
             LET p == SnapshotParams(applying[i].inputs)
                 n == Len(paramSnapshots)
             IN IF n > 0 /\ paramSnapshots[n].params = p
                THEN paramSnapshots' = paramSnapshots
                ELSE /\ Len(paramSnapshots') = n + 1
                     /\ SubSeq(paramSnapshots', 1, n) = paramSnapshots
                     /\ paramSnapshots'[n + 1].params = p ]_vars

\* Two snapshots stored that differ in the frequency only, none waiting.
C14_Witness ==
  /\ applying = <<>>
  /\ Len(paramSnapshots) >= 2
  /\ paramSnapshots[1].params.frequency # paramSnapshots[2].params.frequency
  /\ paramSnapshots[1].params.electrode1 = paramSnapshots[2].params.electrode1

\* The snapshots of list snaps whose time is at most t
SnapsUpTo(snaps, t) == { j \in 1..Len(snaps) : FracLeq(snaps[j].time, Frac(t, 1)) }
SetMax(S) == CHOOSE x \in S : \A y \in S : y <= x

\* C13: the export's pointer walk gives the row at time t the params of the
\* latest snapshot with time <= t; the earliest snapshot's params when no
\* snapshot has time <= t; the live values when there is no snapshot.
C13_SnapshotLookup ==
  fnOut # <<>> =>
    LET times == fnIn[1].times
        snaps == fnIn[1].snaps
        rows == fnOut[1]
    IN /\ Len(rows) = Len(times)
       /\ \A k \in 1..Len(times) :
            /\ rows[k].time = times[k]
            /\ rows[k].params =
                 IF snaps = <<>> THEN LiveParams(inputs)
                 ELSE IF SnapsUpTo(snaps, times[k]) = {} THEN snaps[1].params
                 ELSE snaps[SetMax(SnapsUpTo(snaps, times[k]))].params

\* A lookup with a row before every snapshot and a row that has passed two
\* snapshots since the row before it.
C13_Witness ==
  /\ fnOut # <<>>
  /\ Len(fnOut[1]) >= 2
  /\ SnapsUpTo(fnIn[1].snaps, fnIn[1].times[1]) = {}
  /\ Cardinality(SnapsUpTo(fnIn[1].snaps, fnIn[1].times[2])) >= 2
  /\ fnOut[1][1].params # fnOut[1][2].params

NoRepeat(q) == \A i, j \in 1..Len(q) : q[i] = q[j] => i = j
NidsOf(q) == [i \in 1..Len(q) |-> q[i].nid]

\* C15: every notification put on the raw queue is removed and decoded at
\* most once, and every pair it pushes is removed from the pending queue and
\* handed to the live-store append at most once: nothing decoded is still
\* queued, nothing handed over is still pending, and no notification or pair
\* occurs twice in the decode, push or hand-over order.
C15_AtMostOnce ==
  /\ NoRepeat(NidsOf(handled) \o NidsOf(rawQueue))
  /\ NoRepeat(pushLog)
  /\ NoRepeat(offered \o IdsOf(pairs))
  /\ Range(offered) \subseteq Range(pushLog)
  /\ Range(IdsOf(Imu1)) \subseteq Range(offered)

\* Two notifications decoded and their pairs handed over, with the queues
\* empty again.
C15_Witness ==
  /\ Len(handled) >= 2
  /\ Len(offered) >= 2
  /\ rawQueue = <<>>
  /\ pairs = <<>>

\* C16: the raw queue has a fixed capacity: it never holds as many
\* notifications as a run delivers, however fast they arrive.
C16_RawQueueBounded ==
  Len(rawQueue) < MaxNotifs

\* C17: the receive callback, for every notification, appends {bytes,
\* arrivalTs} to the tail of the raw queue, arms the raw-queue scheduler when
\* it is idle, and leaves the pending-pair queue, the hash map,
\* lastNotificationTs and the live sample store unchanged.
C17_ReceiveOnlyEnqueues ==
  [][ received' # received =>
        /\ Len(rawQueue') = Len(rawQueue) + 1
        /\ SubSeq(rawQueue', 1, Len(rawQueue)) = rawQueue
        /\ rawQueue'[Len(rawQueue')].arrivalTs = now'
        /\ rawQueueProcessing'
        /\ rawTimers' = IF rawQueueProcessing THEN rawTimers ELSE rawTimers + 1
        /\ UNCHANGED <<pairs, recentRawHash, lastNotificationTs, imuData, handled>> ]_vars

\* C18: when the decoding of notifications of a raw-queue tick throws, every
\* notification of the tick is still processed in order, a notification that
\* threw pushes no pair, the pending-pair queue, the hash map and
\* lastNotificationTs end as if the notifications that threw had not been in
\* the batch, and the scheduler stays armed while the raw queue is non-empty.
C18_DecodeFailureContained ==
  [][ Len(handled') > Len(handled) =>
        LET new == SubSeq(handled', Len(handled) + 1, Len(handled'))
            batch == SpliceBatch(rawQueue).taken
            threw == { new[k].nid : k \in { j \in 1..Len(new) : new[j].threw } }
            kept == SelectSeq(batch, LAMBDA it : it.nid \notin threw)
            st == HandleBatch(CurrentRefs, kept, {})
        IN /\ NidsOf(new) = NidsOf(batch)
           /\ \A k \in 1..Len(new) :
                new[k].threw => new[k].pushed = 0 /\ new[k].after = new[k].before
           /\ pairs' = st.pairs
           /\ recentRawHash' = st.recentRawHash
           /\ lastNotificationTs' = st.lastNotificationTs
           /\ rawQueueProcessing' = (rawQueue' # <<>>)
           /\ rawQueue' # <<>> => rawTimers' > 0 ]_vars

\* A notification whose decoding threw, followed by the next notification
\* decoded and pushing its pairs, and a third one decoded after that.
C18_Witness ==
  \E k \in 1..(Len(handled) - 2) :
     /\ handled[k].threw
     /\ ~ handled[k + 1].threw /\ handled[k + 1].pushed > 0
     /\ ~ handled[k + 2].threw

\* C19: a buffer of L bytes decodes to floor(L/4) samples per channel; group i
\* gives the raw values u16le(b[4i], b[4i+1]) and u16le(b[4i+2], b[4i+3]) and
\* the magnitudes |raw - 2048|, which lie in 0..63487; the bytes after the
\* last complete group change none of the four arrays.
C19_DecodeGroups ==
  fnOut # <<>> =>
    LET b == fnIn[1]
        r == fnOut[1]
        n == Len(b) \div 4
        whole == ProcessRawBytesAsMagnitudes(SubSeq(b, 1, 4 * n))
    IN /\ Len(r.sensor1) = n /\ Len(r.sensor2) = n
       /\ Len(r.raw1s) = n /\ Len(r.raw2s) = n
       /\ \A i \in 1..n :
            /\ r.raw1s[i] = b[4 * i - 3] + 256 * b[4 * i - 2]
            /\ r.raw2s[i] = b[4 * i - 1] + 256 * b[4 * i]
            /\ r.sensor1[i] = Abs(r.raw1s[i] - 2048)
            /\ r.sensor2[i] = Abs(r.raw2s[i] - 2048)
            /\ r.sensor1[i] \in 0..63487 /\ r.sensor2[i] \in 0..63487
       /\ <<r.sensor1, r.sensor2, r.raw1s, r.raw2s>>
            = <<whole.sensor1, whole.sensor2, whole.raw1s, whole.raw2s>>

\* Seven bytes decoded: one group, raw values 65535 and 2048, and three bytes over.
C19_Witness ==
  /\ fnOut # <<>>
  /\ Len(fnIn[1]) = 7
  /\ fnOut[1].raw1s = <<65535>> /\ fnOut[1].sensor1 = <<63487>>
  /\ fnOut[1].raw2s = <<2048>> /\ fnOut[1].sensor2 = <<0>>

RoundedKeys(samples) ==
  { MathRound(samples[i].ts.num, samples[i].ts.den) : i \in 1..Len(samples) }
\* The value of the last sample of the list whose rounded timestamp is t
ValueAt(samples, t) ==
  samples[SetMax({ i \in 1..Len(samples) :
                     MathRound(samples[i].ts.num, samples[i].ts.den) = t })].value

\* C20: the pairs emitted are exactly the rounded timestamps both channels
\* have, in ascending order, each with that timestamp's value of either
\* channel; a timestamp only one channel has gives no pair.
C20_AlignIntersection ==
  fnOut # <<>> =>
    LET s1 == fnIn[1].s1
        s2 == fnIn[1].s2
        out == fnOut[1]
        common == RoundedKeys(s1) \cap RoundedKeys(s2)
    IN /\ Len(out) = Cardinality(common)
       /\ \A k \in 1..(Len(out) - 1) : out[k].s1.ts < out[k + 1].s1.ts
       /\ \A k \in 1..Len(out) :
            /\ out[k].s1.ts \in common
            /\ out[k].s2.ts = out[k].s1.ts
            /\ out[k].s1.value = ValueAt(s1, out[k].s1.ts)
            /\ out[k].s2.value = ValueAt(s2, out[k].s1.ts)

\* Channel 1 at 10, 20, 30 and channel 2 at 10, 25, 30 aligned: pairs at 10 and 30.
C20_Witness ==
  /\ fnOut # <<>>
  /\ RoundedKeys(fnIn[1].s1) = {10, 20, 30}
  /\ RoundedKeys(fnIn[1].s2) = {10, 25, 30}
  /\ Len(fnOut[1]) = 2
  /\ fnOut[1][1].s1.ts = 10 /\ fnOut[1][2].s1.ts = 30

RECURSIVE SumOver(_, _)
\* The sum of f over the index set S
SumOver(f, S) ==
  IF S = {} THEN 0
  ELSE LET x == CHOOSE y \in S : TRUE IN f[x] + SumOver(f, S \ {x})

\* C21: for a bin width > 0 the binner emits one point per distinct key
\* floor(time_ms / width), in ascending key order, with count the number of
\* samples of the bin, sensorValue and time the bin's sums divided by count,
\* and min / max its extreme values; for a width <= 0 it emits every sample
\* unchanged as a bin of its own with count 1 and min = max = value.
C21_Binning ==
  fnOut # <<>> =>
    LET smp == fnIn[1].samples
        w == fnIn[1].binMs
        out == fnOut[1]
        key(i) == smp[i].time \div w
        keys == SortAsc({ key(i) : i \in 1..Len(smp) })
        times == [i \in 1..Len(smp) |-> smp[i].time]
        vals == [i \in 1..Len(smp) |-> smp[i].sensorValue]
    IN IF w <= 0
       THEN /\ Len(out) = Len(smp)
            /\ \A i \in 1..Len(smp) :
                 /\ out[i].time = Frac(smp[i].time, 1)
                 /\ out[i].sensorValue = Frac(smp[i].sensorValue, 1)
                 /\ out[i].count = 1
                 /\ out[i].min = smp[i].sensorValue
                 /\ out[i].max = smp[i].sensorValue
       ELSE /\ Len(out) = Len(keys)
            /\ \A j \in 1..Len(keys) :
                 LET S == { i \in 1..Len(smp) : key(i) = keys[j] }
                 IN /\ out[j].count = Cardinality(S)
                    /\ out[j].sensorValue = Frac(SumOver(vals, S), Cardinality(S))
                    /\ out[j].time = Frac(SumOver(times, S), Cardinality(S))
                    /\ out[j].min = SetMin({ vals[i] : i \in S })
                    /\ out[j].max = SetMax({ vals[i] : i \in S })

\* The samples of a live-store channel after the length the poll has seen
Unseen(arr, prev) ==
  SubSeq(arr, (IF Len(arr) < prev THEN 0 ELSE prev) + 1, Len(arr))

\* The samples as points of the session: time relative to start, raw value
RawPoints(samples, start) ==
  [i \in 1..Len(samples) |->
     [time |-> samples[i].ts - start[1], sensorValue |-> samples[i].value,
      id |-> samples[i].id]]

DecodedArrivals ==
  [j \in 1..Len(handled) |->
     [bytes |-> handled[j].bytes, arrivalTs |-> handled[j].arrivalTs,
      nid |-> handled[j].nid]]

\* The pairs each notification pushed, in decode order
PushedBy(h) == [j \in 1..Len(h) |-> h[j].out]

\* C23: the pairs pushed onto the pending-pair queue (timestamps and values,
\* in order) are a function of the received (bytes, arrivalTs) alone: they
\* are what decoding the same notifications in one go from the initial refs
\* pushes, whatever the interleaving of arrivals, raw ticks and drains was,
\* and notifications are decoded in the order they were received.
C23_TimingFromArrival ==
  LET replay == HandleBatch(InitialRefs, DecodedArrivals, {})
  IN /\ PushedBy(handled) = PushedBy(replay.handled)
     /\ pushLog = replay.pushLog
     /\ \A j \in 1..Len(handled) : handled[j].nid = j

\* Two notifications decoded in different raw ticks with a drain between
\* them (the second found the pending queue empty), the second 100 ms after
\* the first: its pairs are spread over that gap and end at its arrival time.
C23_Witness ==
  /\ Len(handled) >= 2
  /\ handled[1].pushed > 0
  /\ handled[2].before = 0
  /\ Len(offered) > 0
  /\ handled[2].arrivalTs = handled[1].arrivalTs + 100
  /\ Len(handled[2].out) = 3
  /\ handled[2].out[3].ts1 = handled[2].arrivalTs
  /\ handled[2].out[1].ts1 = handled[2].arrivalTs - 67

\* C24: right after Start Sensors and right after Stop Sensors both
\* channels' recording buffers are empty.
C24_RecordingClearedAtBothEnds ==
  [][ (HandleStartIMU \/ HandleStopIMU) => recorded' = EmptyRecorded ]_vars

\* The marker types that may follow a marker of type prev
MayFollow(prev) ==
  IF prev = "start" THEN {"pause", "stop"}
  ELSE IF prev = "pause" THEN {"resume", "stop"}
  ELSE IF prev = "resume" THEN {"pause", "stop"}
  ELSE {"start"}

\* start, then alternating pause / resume, then stop, for each recording
MarkerLogWellFormed(log) ==
  \A k \in 1..Len(log) :
     IF k = 1 THEN log[k].type = "start"
     ELSE log[k].type \in MayFollow(log[k - 1].type)

\* log with one marker of the type added at its end
Appended(log, log2, type) ==
  /\ Len(log2) = Len(log) + 1
  /\ SubSeq(log2, 1, Len(log)) = log
  /\ log2[Len(log2)].type = type

\* C25: Start Recording, pause, resume and Stop Recording each append one
\* marker of their type and keep the earlier markers as they are; no other
\* step changes the log except Start Sensors, which empties it for the new
\* session; so the log of a session always reads start, then alternating
\* pause / resume, then stop, for each recording.
C25_MarkerLog ==
  /\ [] MarkerLogWellFormed(markers)
  /\ [][ /\ HandleStartRecording => Appended(markers, markers', "start")
         /\ HandleStopRecording => Appended(markers, markers', "stop")
         /\ HandleTogglePauseRecording =>
              Appended(markers, markers', IF isPausedRecording THEN "resume" ELSE "pause")
         /\ ~ (HandleStartRecording \/ HandleStopRecording \/ HandleTogglePauseRecording)
              => (markers' = markers \/ (HandleStartIMU /\ markers' = <<>>)) ]_vars

\* A session's log after one recording that was paused and resumed.
C25_Witness ==
  /\ Len(markers) = 4
  /\ markers[1].type = "start" /\ markers[2].type = "pause"
  /\ markers[3].type = "resume" /\ markers[4].type = "stop"
  /\ ~ isRecording
  /\ Len(recorded.sensor1) > 0

\* C26: decoding an empty buffer returns an object in which sensor1, sensor2,
\* raw1s and raw2s are all present and empty.
C26_EmptyDecode ==
  (fnOut # <<>> /\ fnIn[1] = <<>>) =>
    /\ fnOut[1].sensor1 = <<>> /\ fnOut[1].sensor2 = <<>>
    /\ fnOut[1].hasRaw
    /\ fnOut[1].raw1s = <<>> /\ fnOut[1].raw2s = <<>>

FracEq(a, b) == a.num * b.den = b.num * a.den

\* C27: with sampleCount = max(len1, len2, 1), the per-sample interval of a
\* decoded notification is gap / sampleCount when there is a previous
\* notification and 5 <= gap / sampleCount < 10000, and 20 ms otherwise;
\* lastNotificationTs becomes the notification's arrivalTs whether or not
\* stage 1 suppresses it and whether or not it has samples.
C27_IntervalSelection ==
  fnOut # <<>> =>
    LET last == fnIn[1].st.lastNotificationTs
        item == fnIn[1].item
        e == fnOut[1].handled[1]
        sampleCount == Max2(Len(item.bytes) \div 4, 1)
        gap == item.arrivalTs - last[1]
    IN /\ IF last # <<>> /\ 5 * sampleCount <= gap /\ gap < 10000 * sampleCount
          THEN FracEq(e.itv[1], [num |-> gap, den |-> sampleCount])
          ELSE FracEq(e.itv[1], [num |-> 20, den |-> 1])
       /\ fnOut[1].lastNotificationTs = <<item.arrivalTs>>

\* A three-sample notification 100 ms after the previous one, suppressed by
\* stage 1: interval 100/3 ms, lastNotificationTs moved to its arrival.
C27_Witness ==
  /\ fnOut # <<>>
  /\ fnOut[1].handled[1].dup
  /\ fnOut[1].handled[1].aligned = 3
  /\ fnOut[1].handled[1].itv[1].num = 100 /\ fnOut[1].handled[1].itv[1].den = 3
  /\ fnIn[1].st.lastNotificationTs = <<1000>>
  /\ fnOut[1].lastNotificationTs = <<1100>>

\* r is the fraction x rounded as Math.round does: r - 1/2 <= x < r + 1/2
IsRounded(r, x) ==
  /\ (2 * r - 1) * x.den <= 2 * x.num
  /\ 2 * x.num < (2 * r + 1) * x.den

\* baseTs - k * itv
BackBy(baseTs, k, itv) ==
  [num |-> baseTs.num * itv.den - k * itv.num * baseTs.den, den |-> baseTs.den * itv.den]

\* Sample idx (from 1) of n has ts = round(baseTs - (n - idx) * itv), and the
\* aligned pairs carry these timestamps in sample order
SynthesizedBackward ==
  LET n == Len(fnIn[1].arr)
      out == fnOut[1]
  IN /\ Len(out.ts) = n
     /\ \A idx \in 1..n :
          IsRounded(out.ts[idx], BackBy(fnIn[1].baseTs, n - idx, fnIn[1].itv))
     /\ Len(out.aligned) = n
     /\ \A idx \in 1..n : out.aligned[idx].s1.ts = out.ts[idx]
                         /\ out.aligned[idx].s1.value = fnIn[1].arr[idx]

\* C28 as stated: sample idx of n gets ts = round(baseTs - (n-1-idx) *
\* perSampleInterval), the last sample's timestamp is exactly the arrivalTs,
\* and no sample has a timestamp later than the arrivalTs.
C28_BackwardSynthesis ==
  fnOut # <<>> =>
    LET n == Len(fnIn[1].arr)
        out == fnOut[1]
    IN /\ SynthesizedBackward
       /\ n > 0 => FracEq(Frac(out.ts[n], 1), fnIn[1].baseTs)
       /\ \A idx \in 1..n : FracLeq(Frac(out.ts[idx], 1), fnIn[1].baseTs)

\* C28, amended: sample idx of n gets ts = round(baseTs - (n-1-idx) *
\* perSampleInterval); the last sample's timestamp is round(arrivalTs), which
\* is the arrivalTs itself when that is a whole number of milliseconds, and
\* no sample has a timestamp later than round(arrivalTs), so none is more
\* than half a millisecond after the arrival.
C28_BackwardSynthesisRounded ==
  fnOut # <<>> =>
    LET n == Len(fnIn[1].arr)
        out == fnOut[1]
        base == fnIn[1].baseTs
    IN /\ SynthesizedBackward
       /\ n > 0 => IsRounded(out.ts[n], base)
       /\ (n > 0 /\ base.den = 1) => out.ts[n] = base.num
       /\ \A idx \in 1..n :
            /\ out.ts[idx] <= out.ts[n]
            /\ 2 * (out.ts[idx] * base.den - base.num) <= base.den

\* Three samples of a notification that arrived at 1000.6 ms, 100/3 ms
\* apart: timestamps 934, 967 and 1001, the last one after the arrival.
C28_Witness ==
  /\ fnOut # <<>>
  /\ fnIn[1].baseTs = [num |-> 5003, den |-> 5]
  /\ fnIn[1].itv = [num |-> 100, den |-> 3]
  /\ fnOut[1].ts = <<934, 967, 1001>>
  /\ Len(fnOut[1].aligned) = 3

\* The notifications handleIMUData worked on during a step, in the order it
\* took them
HandledInStep == SubSeq(handled', Len(handled) + 1, Len(handled'))

\* C29: each raw-queue tick removes min(BATCH_PER_TICK, queue length)
\* notifications from the front of the raw queue and processes them in
\* order; after the tick another tick is scheduled if and only if the raw
\* queue is still non-empty.
C29_RawQueueTick ==
  [][ ProcessRawQueue =>
        LET n == IF Len(rawQueue) < BATCH_PER_TICK THEN Len(rawQueue) ELSE BATCH_PER_TICK
        IN /\ Len(rawQueue') = Len(rawQueue) - n
           /\ \A i \in 1..Len(rawQueue') : rawQueue'[i] = rawQueue[n + i]
           /\ Len(HandledInStep) = n
           /\ \A i \in 1..n : /\ HandledInStep[i].nid = rawQueue[i].nid
                              /\ HandledInStep[i].bytes = rawQueue[i].bytes
                              /\ HandledInStep[i].arrivalTs = rawQueue[i].arrivalTs
           /\ (rawTimers' = 1) = (rawQueue' # <<>>)
           /\ (rawTimers' = 0) = (rawQueue' = <<>>)
           /\ rawQueueProcessing' = (rawQueue' # <<>>) ]_vars

\* A tick took a full batch from the front of a longer queue, in queue
\* order, left the notification behind it and scheduled the next tick.
C29_Witness ==
  /\ Len(handled) = BATCH_PER_TICK
  /\ \A i \in 1..BATCH_PER_TICK : handled[i].nid = i
  /\ Len(rawQueue) = 1
  /\ rawQueue[1].nid = BATCH_PER_TICK + 1
  /\ rawTimers = 1
  /\ rawQueueProcessing

\* The pairs a step took off the front of the pending queue
TakenInStep == Len(pairs) - Len(pairs')

\* A drain starts: chunkedDrain finds no drain under way and pairs pending
DrainStarts == ChunkedDrain /\ ~draining /\ draining'

\* What a drain has still to take is there to be taken
DrainInProgress ==
  draining =>
    /\ drainProcessed < drainTotal
    /\ drainTotal <= MAX_DRAIN_PER_TICK
    /\ Len(pairs) >= drainTotal - drainProcessed
    /\ chunkTimers = 1

DrainStartStep ==
  DrainStarts =>
    /\ drainTotal' = (IF Len(pairs) < MAX_DRAIN_PER_TICK THEN Len(pairs)
                                                        ELSE MAX_DRAIN_PER_TICK)
    /\ drainProcessed' = 0
    /\ pairs' = pairs
    /\ chunkTimers' = 1

\* One sub-chunk per callback: at most DRAIN_CHUNK_SIZE pairs, from the
\* front, counted towards the total; the drain ends with the sub-chunk that
\* completes the total and otherwise waits for its next callback
DrainChunkStep ==
  ProcessNextChunk =>
    /\ draining
    /\ TakenInStep >= 1
    /\ TakenInStep <= DRAIN_CHUNK_SIZE
    /\ \A i \in 1..Len(pairs') : pairs'[i] = pairs[TakenInStep + i]
    /\ offered' = offered \o [i \in 1..TakenInStep |-> pairs[i].id]
    /\ drainProcessed' = drainProcessed + TakenInStep
    /\ drainTotal' = drainTotal
    /\ draining' = (drainProcessed' < drainTotal)
    /\ (~draining') => (drainProcessed' = drainTotal /\ chunkTimers' = 0)
    /\ draining' => chunkTimers' = 1

\* C30: a drain that starts when the pending queue holds m pairs removes
\* exactly min(m, MAX_DRAIN_PER_TICK) pairs in total, in sub-chunks of at
\* most DRAIN_CHUNK_SIZE pairs, with a callback boundary between consecutive
\* sub-chunks; pairs beyond that total stay in the pending queue for a later
\* drain.
C30_ChunkedDrain ==
  /\ []DrainInProgress
  /\ [][DrainStartStep /\ DrainChunkStep]_vars

\* A drain that started on more than MAX_DRAIN_PER_TICK pairs has ended
\* after more than one sub-chunk: it took MAX_DRAIN_PER_TICK pairs, the
\* first ones pushed, and the rest is still pending.
C30_Witness ==
  /\ ~draining
  /\ chunkTimers = 0
  /\ DRAIN_CHUNK_SIZE < MAX_DRAIN_PER_TICK
  /\ drainTotal = MAX_DRAIN_PER_TICK
  /\ drainProcessed = MAX_DRAIN_PER_TICK
  /\ Len(pushLog) > MAX_DRAIN_PER_TICK
  /\ offered = SubSeq(pushLog, 1, MAX_DRAIN_PER_TICK)
  /\ [i \in 1..Len(pairs) |-> pairs[i].id]
       = SubSeq(pushLog, MAX_DRAIN_PER_TICK + 1, Len(pushLog))
  /\ trimCount = 0

\* The base time of the notification decoded last
LastBaseTs == handled[Len(handled)].baseTs

\* The payloads stage 1 recorded within the purge age of the last base time
RecordedRecently ==
  { handled[i].hash : i \in { k \in 1..Len(handled) :
        /\ ~ handled[k].dup
        /\ LastBaseTs - handled[k].baseTs <= DUP_WINDOW_MS * PURGE_FACTOR } }

\* C31: after each notification is processed with base time b, the stage-1
\* hash map contains no entry whose recorded time is older than
\* b - 8 * DUP_WINDOW_MS (2000 ms), so its size never exceeds the number of
\* distinct payloads recorded within the last 2000 ms.
C31_PurgeBound ==
  handled # <<>> =>
    /\ \A h \in DOMAIN recentRawHash :
         recentRawHash[h] >= LastBaseTs - DUP_WINDOW_MS * PURGE_FACTOR
    /\ DOMAIN recentRawHash \subseteq RecordedRecently
    /\ Cardinality(DOMAIN recentRawHash) <= Cardinality(RecordedRecently)

\* A payload recorded more than 2000 ms before the last base time is gone
\* from the map, and the payload recorded last is in it.
C31_Witness ==
  /\ Len(handled) = 2
  /\ ~ handled[1].dup /\ ~ handled[2].dup
  /\ handled[1].hash # handled[2].hash
  /\ handled[2].baseTs - handled[1].baseTs > DUP_WINDOW_MS * PURGE_FACTOR
  /\ DOMAIN recentRawHash = {handled[2].hash}
  /\ recentRawHash[handled[2].hash] = handled[2].baseTs

\* C32: at every callback boundary the processing flag is true if and only
\* if exactly one raw-queue tick is pending, there is never more than one
\* pending tick, and whenever the raw queue is non-empty a tick is pending.
C32_SchedulerConsistent ==
  /\ rawQueueProcessing = (rawTimers = 1)
  /\ rawTimers <= 1
  /\ rawQueue # <<>> => rawTimers >= 1

\* Two notifications are queued behind one tick, after an earlier tick left
\* the scheduler idle and a notification whose decoding threw.
C32_Witness ==
  /\ Len(rawQueue) = 2
  /\ rawTimers = 1
  /\ rawQueueProcessing
  /\ Len(handled) = 1
  /\ handled[1].threw

\* Notification nid waits on the raw queue / has been through handleIMUData
OnRawQueue(nid) == \E i \in 1..Len(rawQueue) : rawQueue[i].nid = nid
Decoded(nid) == \E j \in 1..Len(handled) : handled[j].nid = nid

\* Pair id waits on the pending queue / was handed to the live-store append
IsPending(id) == \E i \in 1..Len(pairs) : pairs[i].id = id
WasOffered(id) == \E i \in 1..Len(offered) : offered[i] = id

\* The ids a pair can have: the notification's number and the sample's index
PairIds ==
  UNION { { <<nid, i>> : i \in 1..Len(ProcessRawBytesAsMagnitudes(b).sensor1) } :
            nid \in 1..MaxNotifs, b \in FaultBuffers }

\* Both queues are empty, no raw-queue tick and no sub-chunk is scheduled
Quiescent ==
  /\ rawQueue = <<>> /\ rawTimers = 0 /\ ~ rawQueueProcessing
  /\ pairs = <<>> /\ ~ draining /\ chunkTimers = 0

\* C33: provided the timers keep firing, every notification placed on the
\* raw queue is eventually decoded, and every pair placed on the pending-pair
\* queue is eventually either handed to the live-store append or dropped by
\* the overflow trim; once notifications stop arriving, both queues
\* eventually become empty and both the raw-queue scheduler and the drain go
\* idle.
C33_Progress ==
  /\ \A nid \in 1..MaxNotifs : OnRawQueue(nid) ~> Decoded(nid)
  /\ \A id \in PairIds : IsPending(id) ~> (WasOffered(id) \/ ~ IsPending(id))
  /\ <>[]Quiescent

\* Everything the device sent has been decoded; the pending queue overflowed
\* once, the pairs that were left have gone to the live store, and the
\* queues and both schedulers are idle.
C33_Witness ==
  /\ Quiescent
  /\ received = MaxNotifs
  /\ Len(handled) = MaxNotifs
  /\ trimCount > 0
  /\ Len(offered) > 0
  /\ Len(offered) + trimCount = Len(pushLog)

\* A chain of sub-chunks is started only when none is outstanding, and a
\* drain tick during a drain takes nothing and schedules nothing
NoSecondChain ==
  /\ chunkTimers' > chunkTimers => (~ draining /\ chunkTimers = 0 /\ chunkTimers' = 1)
  /\ (draining /\ ChunkedDrain) =>
       UNCHANGED <<pairs, chunkTimers, draining, drainTotal, drainProcessed, imuData, offered>>
  /\ Len(offered') > Len(offered) => (draining /\ chunkTimers = 1)

\* C34: at most one chunked drain is in progress at any time, and a drain
\* tick that fires while an earlier drain still has sub-chunks outstanding
\* removes nothing from the pending queue and starts no second chain of
\* sub-chunks.
C34_DrainsNeverOverlap ==
  /\ [](chunkTimers <= 1 /\ draining = (chunkTimers = 1))
  /\ [][NoSecondChain]_vars

\* A drain has taken its first sub-chunk and has one outstanding, with pairs
\* pending that a second drain would take.
C34_Witness ==
  /\ draining
  /\ chunkTimers = 1
  /\ drainProcessed > 0
  /\ drainProcessed < drainTotal
  /\ Len(pairs) > drainTotal - drainProcessed

\* Every sub-chunk is as large as the plan allows: the full chunk size, or
\* what is left of the total
FullSubChunk ==
  ProcessNextChunk =>
    TakenInStep = (IF drainTotal - drainProcessed < DRAIN_CHUNK_SIZE
                   THEN drainTotal - drainProcessed ELSE DRAIN_CHUNK_SIZE)

\* C35: every started drain finishes: it removes its planned total in at
\* most ceil(total / DRAIN_CHUNK_SIZE) sub-chunks (every sub-chunk but the
\* last is a full one) and then clears the draining flag, even when raw-queue
\* ticks push new pairs and the overflow trim removes pairs from the front
\* between its sub-chunks; the draining flag is never left set with no
\* sub-chunk scheduled.
C35_DrainFinishes ==
  /\ draining ~> (~ draining /\ drainProcessed = drainTotal)
  /\ [](draining => (chunkTimers = 1 /\ drainProcessed % DRAIN_CHUNK_SIZE = 0
                                     /\ drainProcessed < drainTotal))
  /\ [](~ draining => drainProcessed = drainTotal)
  /\ [][FullSubChunk]_vars

\* The first drain started on a single pending pair; before its sub-chunk
\* ran, a raw-queue tick pushed six pairs and the overflow trim cut two from
\* the front, the planned pair among them.  The drain took one pair, the
\* first of those left, and ended.
C35_Witness ==
  /\ ~ draining
  /\ chunkTimers = 0
  /\ drainTotal = 1
  /\ drainProcessed = 1
  /\ Len(offered) = 1
  /\ trimCount > 0
  /\ offered[1] # pushLog[1]
  /\ Len(pairs) = PENDING_CAP - 1

\* C36: the live sample store stays index-aligned: after any sequence of
\* drains, clears and disconnects, the two channel arrays have the same
\* length and, at every index, the same timestamp; so do the two samples of
\* every pair that waits in the pending queue.
C36_StoreIndexAligned ==
  /\ Len(Imu1) = Len(Imu2)
  /\ \A k \in 1..Len(Imu1) : Imu1[k].ts = Imu2[k].ts
  /\ \A k \in 1..Len(pairs) : pairs[k].s1.ts = pairs[k].s2.ts

\* The store was cleared after the first notification had arrived and has
\* since been filled again by a drain, with three samples per channel.
C36_Witness ==
  /\ lastResetNid > 0
  /\ Len(Imu1) = 3
  /\ Len(Imu2) = 3
  /\ \A k \in 1..3 : Imu1[k].id[1] > lastResetNid
  /\ Imu1[1].ts < Imu1[3].ts

\* C37: every notification that is not suppressed by stage 1 and carries k
\* complete 4-byte groups pushes exactly k aligned pairs with strictly
\* increasing timestamps, the same for both channels, and the chosen
\* per-sample interval is always at least 5 ms.
C37_NoSampleLost ==
  fnOut # <<>> =>
    LET e == fnOut[1].handled[1]
        k == Len(fnIn[1].item.bytes) \div 4
        pushed == fnOut[1].pairs
    IN /\ e.itv[1].num >= MIN_SAMPLE_INTERVAL * e.itv[1].den
       /\ e.aligned = k
       /\ ~ e.dup =>
            /\ e.pushed = k
            /\ Len(pushed) = k
            /\ \A i \in 1..k : pushed[i].s1.ts = pushed[i].s2.ts
            /\ \A i \in 1..(k - 1) : pushed[i].s1.ts < pushed[i + 1].s1.ts

\* Three groups and three stray bytes, 15 ms after the previous
\* notification: the smallest interval, 5 ms, and three pairs at 1005, 1010
\* and 1015 ms.
C37_Witness ==
  /\ fnOut # <<>>
  /\ Len(fnIn[1].item.bytes) = 15
  /\ fnIn[1].st.lastNotificationTs = <<1000>>
  /\ fnIn[1].item.arrivalTs = 1015
  /\ ~ fnOut[1].handled[1].dup
  /\ Len(fnOut[1].pairs) = 3
  /\ fnOut[1].pairs[1].s1.ts = 1005
  /\ fnOut[1].pairs[2].s1.ts = 1010
  /\ fnOut[1].pairs[3].s2.ts = 1015

\* The notifications before the j-th decoded that stage 1 accepted with the
\* payload of the j-th
AcceptedBefore(j) ==
  { i \in 1..(j - 1) : ~ handled[i].dup /\ handled[i].hash = handled[j].hash }

\* The last of them
LastAcceptedBefore(j) ==
  CHOOSE i \in AcceptedBefore(j) : \A k \in AcceptedBefore(j) : k <= i

\* C38: a notification suppressed by stage 1 does not refresh the recorded
\* time of its hash: the recorded time is that of the last accepted
\* notification with the payload, a notification is suppressed only less than
\* DUP_WINDOW_MS after that one, and one that comes DUP_WINDOW_MS or more
\* after it is accepted, however recently the payload was suppressed.
C38_WindowFromLastAccepted ==
  \A j \in 1..Len(handled) :
    /\ handled[j].dup =>
         /\ AcceptedBefore(j) # {}
         /\ handled[j].baseTs - handled[LastAcceptedBefore(j)].baseTs < DUP_WINDOW_MS
    /\ (AcceptedBefore(j) # {}
         /\ handled[j].baseTs - handled[LastAcceptedBefore(j)].baseTs >= DUP_WINDOW_MS)
        => ~ handled[j].dup
    /\ (j = Len(handled) /\ handled[j].dup) =>
         recentRawHash[handled[j].hash] = handled[LastAcceptedBefore(j)].baseTs

\* One payload three times: accepted, suppressed 100 ms later, and accepted
\* again 150 ms after the suppressed one, 250 ms after the accepted one.
C38_Witness ==
  /\ Len(handled) = 3
  /\ handled[1].hash = handled[2].hash /\ handled[2].hash = handled[3].hash
  /\ ~ handled[1].dup /\ handled[2].dup /\ ~ handled[3].dup
  /\ handled[2].baseTs - handled[1].baseTs = 100
  /\ handled[3].baseTs - handled[2].baseTs = 150
  /\ recentRawHash[handled[3].hash] = handled[3].baseTs

\* The samples of a channel beyond the length the poll saw last
Beyond(arr, prev) == SubSeq(arr, prev + 1, Len(arr))

IsPrefixOf(a, b) == Len(a) <= Len(b) /\ SubSeq(b, 1, Len(a)) = a

\* The measurement runs before and after the step
MeasurementRuns == isConnected /\ isMeasuring /\ isConnected' /\ isMeasuring'

\* A poll tick forwards exactly the samples beyond the lengths it saw last,
\* in order, and then has seen the whole store
TickConsumesUnseen ==
  Tick =>
    /\ prevImuLen' = [s1 |-> Len(Imu1), s2 |-> Len(Imu2)]
    /\ (Len(Imu1) > prevImuLen.s1 \/ Len(Imu2) > prevImuLen.s2) =>
         /\ queuedS1' = queuedS1 \o
               Display(BinAndAggregate(
                 PushWithTs(Beyond(Imu1, prevImuLen.s1), sessionStart'[1]), BIN_MS))
         /\ queuedS2' = queuedS2 \o
               Display(BinAndAggregate(
                 PushWithTs(Beyond(Imu2, prevImuLen.s2), sessionStart'[1]), BIN_MS))
    /\ (Len(Imu1) = prevImuLen.s1 /\ Len(Imu2) = prevImuLen.s2) =>
         UNCHANGED <<queuedS1, queuedS2>>

\* Between poll ticks of a running measurement the store only grows and
\* what the poll has seen and forwarded stays as it is: so too when
\* recording starts, stops, pauses or resumes
OnlyTickConsumes ==
  (MeasurementRuns /\ ~ Tick) =>
    /\ UNCHANGED <<prevImuLen, queuedS1, queuedS2>>
    /\ IsPrefixOf(Imu1, imuData'.imu1_changes)
    /\ IsPrefixOf(Imu2, imuData'.imu2_changes)

\* C39: while a measurement runs and the live store only grows, the
\* periodic poll consumes every sample of each channel once and in order,
\* skipping none and repeating none, including across the poll-timer restart
\* caused by starting or stopping recording: the poll has always seen a
\* prefix of the store, each tick takes exactly what lies beyond it, and no
\* other step moves the mark.
C39_ConsumedExactlyOnce ==
  /\ []((isConnected /\ isMeasuring) =>
          (prevImuLen.s1 <= Len(Imu1) /\ prevImuLen.s2 <= Len(Imu2)))
  /\ [][TickConsumesUnseen /\ OnlyTickConsumes]_vars

\* A tick consumed samples before recording started and another tick
\* consumed the later ones after the timer had been restarted by Start
\* Recording: everything in the store has been forwarded once, the later
\* part recorded.
C39_Witness ==
  /\ isConnected /\ isMeasuring /\ isRecording /\ ~ isPausedRecording
  /\ Len(Imu1) >= 2
  /\ prevImuLen.s1 = Len(Imu1)
  /\ Len(queuedS1) = Len(Imu1)
  /\ Len(recorded.sensor1) > 0
  /\ Len(recorded.sensor1) < Len(queuedS1)
  /\ \A k \in 1..Len(Imu1) : queuedS1[k].sensorValue = Frac(Imu1[k].value, 1)

====
